---- MODULE Spec2Model ----
(***************************************************************************)
(* Model of deployments/data-mesh/superset/setup-dashboards.py: the        *)
(* idempotent-by-name provisioning of a database connection, datasets,     *)
(* charts and dashboards in Superset through its REST API.                 *)
(*                                                                         *)
(* The backend is the environment: a table per resource kind, answering    *)
(* listing GETs and creation POSTs.  The script is sequential; each HTTP   *)
(* round trip is one step of the process that runs it.                     *)
(***************************************************************************)
EXTENDS Integers, Sequences, FiniteSets, TLC

VARIABLES
    backend,    \* [database, dataset, chart, dashboard]: the rows the backend holds, in listing order
    pr,         \* per process: position in main(), the running upsert's frame, the run's locals
    faults,     \* how many more transport/shape faults the backend may still show
    rejects,    \* how many more creation requests the backend may still reject
    det,        \* TRUE: the backend decides a creation request by the request alone
    decided,    \* det only: the requests decided so far, with the decision
    calls,      \* harness only: upsert calls made so far
    sched       \* two runs at once: whose turn it is, and the preemptions so far

vars == <<backend, pr, faults, rejects, det, decided, calls, sched>>

----------------------------------------------------------------------------
(* Bounds of the model.  MaxFaults and MaxRejects bound what the backend   *)
(* may do wrong in one behaviour (MainRejects: the rejections met by runs  *)
(* of main); MaxRuns the runs of main; MaxCalls the calls made of single   *)
(* upsert functions and MaxListing the rows they meet; MaxCharts the chart *)
(* ids create_dashboard is called with on its own; MaxSwitches the times   *)
(* one of two runs at once is made to wait in its middle for the other.    *)

MaxFaults == 1
MaxRejects == 2
MaxRuns == 2
MaxCalls == 2
MaxCharts == 3
MaxListing == 2
MainRejects == 1
MaxSwitches == 1

\* The scheduler where one process runs alone.
NoSched == [turn |-> 1, preemptions |-> 0]

----------------------------------------------------------------------------
(* Python values. *)

\* None as a returned id.  Every test the script makes on an id is a truth
\* test (if not database_id, if chart_id), which 0 and None answer alike.
None == 0

\* None as a string argument (schema=None), and an absent payload field.
Missing == "<none>"

\* Python truth of an id and of a string.
Truthy(id) == id # None
TruthyStr(s) == s # Missing /\ s # ""

UpperCase == "ABCDEFGHIJKLMNOPQRSTUVWXYZ"
LowerCase == "abcdefghijklmnopqrstuvwxyz"

LowerChar(c) ==
    IF \E i \in 1..Len(UpperCase) : SubSeq(UpperCase, i, i) = c
    THEN LET i == CHOOSE j \in 1..Len(UpperCase) : SubSeq(UpperCase, j, j) = c
         IN  SubSeq(LowerCase, i, i)
    ELSE c

\* str.lower()
RECURSIVE LowerFrom(_, _)
LowerFrom(s, i) ==
    IF i > Len(s) THEN "" ELSE LowerChar(SubSeq(s, i, i)) \o LowerFrom(s, i + 1)
Lower(s) == LowerFrom(s, 1)

\* sub in s
Contains(sub, s) ==
    \E i \in 1..(Len(s) - Len(sub) + 1) : SubSeq(s, i, i + Len(sub) - 1) = sub

\* Where a loop over a listing returns: the first of the indices S of the rows
\* that pass its test, 0 when the loop ends without a return.
FirstIndex(S) ==
    IF S = {} THEN 0 ELSE CHOOSE i \in S : \A j \in S : i <= j

\* A slip of the loop over chart_ids: break where continue is meant.
RECURSIVE SelectUntilNull(_)
SelectUntilNull(ids) ==
    IF ids = <<>> THEN <<>>
    ELSE IF Truthy(Head(ids)) THEN <<Head(ids)>> \o SelectUntilNull(Tail(ids))
         ELSE <<>>

RECURSIVE SelectNonNull(_)
SelectNonNull(ids) ==
    IF ids = <<>> THEN <<>>
    ELSE IF Truthy(Head(ids)) THEN <<Head(ids)>> \o SelectNonNull(Tail(ids))
         ELSE SelectNonNull(Tail(ids))

----------------------------------------------------------------------------
(* The existence checks: the loop over the listing that each upsert runs   *)
(* before it creates anything.  Each gives the index in the listing of the *)
(* row that is reused, 0 when the loop ends without a match.               *)

\* db.get("database_name", "")
DatabaseName(db) == IF db.database_name = Missing THEN "" ELSE db.database_name

IsTrinoOrWms(db) ==
    \/ Contains("trino", Lower(DatabaseName(db)))
    \/ Contains("wms", Lower(DatabaseName(db)))

ExistingDatabase(databases) ==
    FirstIndex({i \in 1..Len(databases) : IsTrinoOrWms(databases[i])})

\* Slips of the dataset loop: it starts at the second row; it compares
\* without regard to letter case.
ExistingDatasetSkipFirst(datasets, name) ==
    FirstIndex({i \in 2..Len(datasets) : datasets[i].table_name = name})

ExistingDatasetIgnoreCase(datasets, name) ==
    FirstIndex({i \in 1..Len(datasets) : Lower(datasets[i].table_name) = Lower(name)})

ExistingDataset(datasets, name) ==
    FirstIndex({i \in 1..Len(datasets) : datasets[i].table_name = name})

\* A slip of the chart loop: it reads a field that holds no name.
ExistingChartWrongField(charts, name) ==
    FirstIndex({i \in 1..Len(charts) : charts[i].datasource_type = name})

ExistingChart(charts, name) ==
    FirstIndex({i \in 1..Len(charts) : charts[i].slice_name = name})

\* Another precedence: a dashboard of that slug before one of that title.
ExistingDashboardSlugFirst(dashboards, slug, name) ==
    IF \E i \in 1..Len(dashboards) : dashboards[i].slug = slug
    THEN FirstIndex({i \in 1..Len(dashboards) : dashboards[i].slug = slug})
    ELSE FirstIndex({i \in 1..Len(dashboards) : dashboards[i].dashboard_title = name})

ExistingDashboard(dashboards, slug, name) ==
    FirstIndex({i \in 1..Len(dashboards) :
                  dashboards[i].slug = slug \/ dashboards[i].dashboard_title = name})

----------------------------------------------------------------------------
(* The creation payloads.  Pass-through literals that no decision of the   *)
(* script reads (descriptions, visualization parameters, capability flags) *)
(* are left out; an absent field is Missing.                               *)

DatabasePayload ==
    [database_name |-> "Trino - WMS Data Mesh", engine |-> "trino"]

\* A slip of the first payload: the schema left out whatever was supplied.
VirtualDatasetPayloadBare(database_id, name, sql, schema) ==
    [database |-> database_id, table_name |-> name, sql |-> sql,
     schema |-> Missing]

\* First payload of create_virtual_dataset: schema only when it is truthy.
VirtualDatasetPayload(database_id, name, sql, schema) ==
    [database |-> database_id, table_name |-> name, sql |-> sql,
     schema |-> IF TruthyStr(schema) THEN schema ELSE Missing]

\* A slip of the alternative payload: the fallback schema whatever was supplied.
AlternativePayloadGold(database_id, name, sql, schema) ==
    [database |-> database_id, table_name |-> name, sql |-> sql,
     schema |-> "gold"]

\* The alternative payload of create_virtual_dataset.
AlternativePayload(database_id, name, sql, schema) ==
    [database |-> database_id, table_name |-> name, sql |-> sql,
     schema |-> IF ~TruthyStr(schema) THEN "gold" ELSE schema]

DatasetPayload(database_id, schema, table_name) ==
    [database |-> database_id, table_name |-> table_name, sql |-> Missing,
     schema |-> schema]

SqlDatasetPayload(database_id, name, sql) ==
    [database |-> database_id, table_name |-> name, sql |-> sql,
     schema |-> Missing]

ChartPayload(name, datasource_id) ==
    [slice_name |-> name, datasource_id |-> datasource_id,
     datasource_type |-> "table"]

\* f"CHART-{chart_id}"
ChartKey(chart_id) == "CHART-" \o ToString(chart_id)

\* A layout whose leaves are keyed by their place in the chart-id list.
PositionJsonByPosition(name, chart_ids) ==
    LET places == {i \in 1..Len(chart_ids) : Truthy(chart_ids[i])}
        shown  == SelectNonNull(chart_ids)
        place(n) == CHOOSE i \in places : Cardinality({j \in places : j <= i}) = n
    IN  [header   |-> name,
         root     |-> <<"GRID_ID">>,
         grid     |-> <<"ROW-1">>,
         children |-> [n \in 1..Len(shown) |-> ChartKey(place(n))],
         nodes    |-> [k \in {ChartKey(i) : i \in places} |->
                        LET i == CHOOSE j \in places : ChartKey(j) = k
                        IN  [type |-> "CHART", id |-> k, children |-> <<>>,
                             parents |-> <<"ROOT_ID", "GRID_ID", "ROW-1">>,
                             width |-> 4, height |-> 50,
                             chartId |-> chart_ids[i]]]]

\* A layout that shares the row's twelve columns among its charts.
PositionJsonSharedWidth(name, chart_ids) ==
    LET shown == SelectNonNull(chart_ids)
        keys  == {ChartKey(shown[i]) : i \in 1..Len(shown)}
    IN  [header   |-> name,
         root     |-> <<"GRID_ID">>,
         grid     |-> <<"ROW-1">>,
         children |-> [i \in 1..Len(shown) |-> ChartKey(shown[i])],
         nodes    |-> [k \in keys |->
                        LET i == CHOOSE j \in 1..Len(shown) : ChartKey(shown[j]) = k
                        IN  [type |-> "CHART", id |-> k, children |-> <<>>,
                             parents |-> <<"ROOT_ID", "GRID_ID", "ROW-1">>,
                             width |-> 12 \div Len(shown), height |-> 50,
                             chartId |-> shown[i]]]]

\* position_json: ROW-1's children, and the leaf nodes the dict holds by key.
\* A key assigned twice keeps the node assigned last.
PositionJson(name, chart_ids) ==
    LET shown == SelectNonNull(chart_ids)
        keys  == {ChartKey(shown[i]) : i \in 1..Len(shown)}
    IN  [header   |-> name,
         root     |-> <<"GRID_ID">>,
         grid     |-> <<"ROW-1">>,
         children |-> [i \in 1..Len(shown) |-> ChartKey(shown[i])],
         nodes    |-> [k \in keys |->
                        LET i == CHOOSE j \in 1..Len(shown) :
                                    /\ ChartKey(shown[j]) = k
                                    /\ \A l \in (j + 1)..Len(shown) : ChartKey(shown[l]) # k
                        IN  [type |-> "CHART", id |-> k, children |-> <<>>,
                             parents |-> <<"ROOT_ID", "GRID_ID", "ROW-1">>,
                             width |-> 4, height |-> 50, chartId |-> shown[i]]]]

DashboardPayload(name, slug, chart_ids) ==
    [dashboard_title |-> name, slug |-> slug, published |-> TRUE,
     position_json |-> PositionJson(name, chart_ids)]

----------------------------------------------------------------------------
(* The backend, as far as the script can tell it apart.                    *)

Kinds == {"database", "dataset", "chart", "dashboard"}

EmptyBackend == [k \in Kinds |-> <<>>]

\* A listing GET is answered with the rows ("ok"), with a JSON object that
\* has no "result" (an error body: "noresult"), or with something json()
\* cannot decode, or not at all ("raise").
GetResponses == {"ok", "noresult", "raise"}

\* response.json().get("result", [])
ResultOf(resp, rows) == IF resp = "ok" THEN rows ELSE <<>>

\* A creation POST is answered with a status, and a body with or without "id"
\* (exc "none"); or the call client.post raises (exc): the POST is answered
\* 200/201, the row is stored, and the body is no JSON object, so that
\* response.json().get("id") raises ("body"); the POST gets no answer
\* ("connection").  The GET of the CSRF token that client.post makes before
\* the POST is the step refresh_csrf.
PostResponses ==
    { [status |-> 200, id |-> TRUE, exc |-> "none"],
      [status |-> 201, id |-> TRUE, exc |-> "none"],
      [status |-> 201, id |-> FALSE, exc |-> "none"],
      [status |-> 400, id |-> FALSE, exc |-> "none"],
      [status |-> 500, id |-> FALSE, exc |-> "none"],
      [status |-> 201, id |-> FALSE, exc |-> "body"],
      [status |-> 0, id |-> FALSE, exc |-> "connection"] }

\* The POST of client.post(...) or the reading of its answer raises.
Throws(resp) == resp.exc # "none"

\* response.status_code in [200, 201]
Accepted(status) == status \in {200, 201}

\* The row a creation adds: the payload under the next id of its kind.
NewId(kind) == Len(backend[kind]) + 1
Insert(kind, payload) ==
    [backend EXCEPT ![kind] = Append(@, [id |-> NewId(kind)] @@ payload)]

\* What the backend may answer to a listing GET.
EnvGet(resp) ==
    /\ resp # "ok" => faults > 0
    /\ faults' = IF resp = "ok" THEN faults ELSE faults - 1

\* What the backend may answer to the creation request req, and what the
\* request does to it.
EnvPost(kind, payload, resp) ==
    LET req       == [kind |-> kind, payload |-> payload]
        unsent    == resp.exc = "connection"
        rejected  == ~Throws(resp) /\ resp.status >= 400
        malformed == ~Throws(resp) /\ ~rejected /\ ~resp.id
        faulty    == malformed \/ Throws(resp)
        prior     == {d \in decided : d.req = req}
        replay    == det /\ prior # {}
    IN  /\ faulty => faults > 0
        /\ IF unsent THEN TRUE
           ELSE IF replay THEN \A d \in prior : d.rejected = rejected
                ELSE rejected => rejects > 0
        /\ faults' = IF faulty THEN faults - 1 ELSE faults
        /\ rejects' = IF rejected /\ ~replay THEN rejects - 1 ELSE rejects
        /\ decided' = IF det /\ ~unsent
                      THEN decided \cup {[req |-> req, rejected |-> rejected]}
                      ELSE decided
        /\ backend' = IF rejected \/ unsent THEN backend ELSE Insert(kind, payload)

\* response.json().get("id") of the creation that resp answers
ResponseId(kind, resp) == IF resp.id THEN NewId(kind) ELSE None

----------------------------------------------------------------------------
(* The running upsert of a process: fn is the function, upc the next HTTP  *)
(* call it makes ("list", "post", "retry") or "done" once it has returned  *)
(* (ret) or raised.                                                        *)

NoArgs ==
    [name |-> Missing, slug |-> Missing, schema |-> Missing, sql |-> Missing,
     parent |-> None, chart_ids |-> <<>>]

\* The call fn(client, ...) is entered.
Begin(r, fn, args) ==
    [r EXCEPT !.fn = fn, !.upc = "list", !.args = args, !.listing = <<>>,
              !.got = "none", !.ret = None, !.out = "none", !.sent = <<>>]

\* The function returns value after printing outcome.
Returned(r, value, outcome) ==
    [r EXCEPT !.upc = "done", !.ret = value, !.out = outcome,
              !.log = @ \cup {[fn |-> r.fn, name |-> r.args.name, out |-> outcome]}]

\* An exception leaves the function.  Nothing in the script catches it: the
\* run ends with a traceback and exit status 1.
Raised(r) ==
    IF r.ph = "harness"
    THEN [r EXCEPT !.upc = "done", !.ret = None, !.out = "raised"]
    ELSE [r EXCEPT !.upc = "done", !.ret = None, !.out = "raised",
                   !.ph = "crashed", !.exit = 1]

\* The POST of client.post(endpoint, payload) was sent and the environment
\* did resp; the token is refreshed anew before the next POST.
Sent(r, kind, payload, resp) ==
    [r EXCEPT !.tok = FALSE,
              !.sent = Append(@, [kind |-> kind, payload |-> payload,
                                  accepted |-> Accepted(resp.status),
                                  raised |-> Throws(resp),
                                  id |-> IF Accepted(resp.status)
                                         THEN ResponseId(kind, resp) ELSE None]),
              !.posted = @ \cup {[kind |-> kind, payload |-> payload, args |-> r.args]}]

\* The process is in fn, about to make the call upc; a POST or PUT is sent
\* once _refresh_csrf has returned.
At(p, fn, upc) ==
    /\ pr[p].fn = fn
    /\ pr[p].upc = upc
    /\ upc \in {"post", "retry", "put"} => pr[p].tok

\* What the backend may answer to the GET of the CSRF token: a token, or any
\* answer that _refresh_csrf takes without raising ("ok"); no answer, or 200
\* with a body that is no JSON object ("raise").
CsrfResponses == {"ok", "raise"}

\* SupersetClient._refresh_csrf, the first round trip of client.post and of
\* client.put: GET /api/v1/security/csrf_token/.  It changes no row.  When
\* it raises, the POST or PUT is never sent.
refresh_csrf(p) ==
    /\ pr[p].fn # "none"
    /\ pr[p].upc \in {"post", "retry", "put"}
    /\ ~pr[p].tok
    /\ \E resp \in CsrfResponses :
        /\ resp = "raise" => faults > 0
        /\ faults' = IF resp = "raise" THEN faults - 1 ELSE faults
        /\ pr' = [pr EXCEPT ![p] = IF resp = "raise" THEN Raised(@)
                                                     ELSE [@ EXCEPT !.tok = TRUE]]
    /\ UNCHANGED <<backend, rejects, det, decided, calls, sched>>

\* The existence check of function fn called with arguments a.
Existing(fn, rows, a) ==
    CASE fn = "create_database_connection" -> ExistingDatabase(rows)
      [] fn = "create_chart"               -> ExistingChart(rows, a.name)
      [] fn = "create_dashboard"           -> ExistingDashboard(rows, a.slug, a.name)
      [] OTHER                             -> ExistingDataset(rows, a.name)

\* A listing step that sends the creation request whatever the listing holds.
ListStepThenCreate(p, kind) ==
    \E resp \in GetResponses :
        /\ EnvGet(resp)
        /\ IF resp = "raise"
           THEN pr' = [pr EXCEPT ![p] = Raised([@ EXCEPT !.got = resp])]
           ELSE LET rows == ResultOf(resp, backend[kind])
                    r    == [pr[p] EXCEPT !.got = resp, !.listing = rows]
                IN  pr' = [pr EXCEPT ![p] = [r EXCEPT !.upc = "post"]]
        /\ UNCHANGED <<backend, rejects, det, decided, calls, sched>>

\* The step every upsert starts with: GET the listing, look for the row.
\* (The filter that create_virtual_dataset adds to its GET changes nothing the
\* loop finds: the loop compares every row it is given.)
ListStep(p, kind) ==
    \E resp \in GetResponses :
        /\ EnvGet(resp)
        /\ IF resp = "raise"
           THEN pr' = [pr EXCEPT ![p] = Raised([@ EXCEPT !.got = resp])]
           ELSE LET rows == ResultOf(resp, backend[kind])
                    i    == Existing(pr[p].fn, rows, pr[p].args)
                    r    == [pr[p] EXCEPT !.got = resp, !.listing = rows]
                IN  pr' = [pr EXCEPT ![p] =
                             IF i # 0 THEN Returned(r, rows[i].id, "exists")
                                      ELSE [r EXCEPT !.upc = "post"]]
        /\ UNCHANGED <<backend, rejects, det, decided, calls, sched>>

\* The creation POST of the functions that try once, the second round trip
\* of client.post: the id on 200/201, otherwise OnFailure; an exception of
\* session.post or of response.json() leaves the function.
PostStep(p, kind, payload, OnFailure) ==
    \E resp \in PostResponses :
        /\ EnvPost(kind, payload, resp)
        /\ LET r == Sent(pr[p], kind, payload, resp)
           IN  pr' = [pr EXCEPT ![p] =
                        IF Throws(resp) THEN Raised(r) ELSE
                        IF Accepted(resp.status)
                        THEN Returned(r, ResponseId(kind, resp), "created")
                        ELSE Returned(r, OnFailure, "failed")]
        /\ UNCHANGED <<det, calls, sched>>

(* create_database_connection *)

create_database_connection_get(p) ==
    /\ At(p, "create_database_connection", "list")
    /\ ListStep(p, "database")

\* Without the fallback: None whenever the creation is rejected.
DatabaseFallbackNone(databases) == None

\* Rejected: the first database of the listing as fallback, None without one.
DatabaseFallback(databases) ==
    IF databases # <<>> THEN databases[1].id ELSE None

create_database_connection_post(p) ==
    /\ At(p, "create_database_connection", "post")
    /\ PostStep(p, "database", DatabasePayload, DatabaseFallback(pr[p].listing))

(* create_virtual_dataset *)

create_virtual_dataset_get(p) ==
    /\ At(p, "create_virtual_dataset", "list")
    /\ ListStep(p, "dataset")

\* A first attempt that takes an answer without id for a rejection.
create_virtual_dataset_post_strict(p) ==
    /\ At(p, "create_virtual_dataset", "post")
    /\ LET a       == pr[p].args
           payload == VirtualDatasetPayload(a.parent, a.name, a.sql, a.schema)
       IN  \E resp \in PostResponses :
            /\ EnvPost("dataset", payload, resp)
            /\ LET r == Sent(pr[p], "dataset", payload, resp)
               IN  pr' = [pr EXCEPT ![p] =
                            IF Throws(resp) THEN Raised(r) ELSE
                            IF Accepted(resp.status) /\ resp.id
                            THEN Returned(r, ResponseId("dataset", resp), "created")
                            ELSE [r EXCEPT !.upc = "retry"]]
    /\ UNCHANGED <<det, calls, sched>>

create_virtual_dataset_post(p) ==
    /\ At(p, "create_virtual_dataset", "post")
    /\ LET a       == pr[p].args
           payload == VirtualDatasetPayload(a.parent, a.name, a.sql, a.schema)
       IN  \E resp \in PostResponses :
            /\ EnvPost("dataset", payload, resp)
            /\ LET r == Sent(pr[p], "dataset", payload, resp)
               IN  pr' = [pr EXCEPT ![p] =
                            IF Throws(resp) THEN Raised(r) ELSE
                            IF Accepted(resp.status)
                            THEN Returned(r, ResponseId("dataset", resp), "created")
                            ELSE [r EXCEPT !.upc = "retry"]]
    /\ UNCHANGED <<det, calls, sched>>

create_virtual_dataset_retry(p) ==
    /\ At(p, "create_virtual_dataset", "retry")
    /\ LET a == pr[p].args
       IN  PostStep(p, "dataset", AlternativePayload(a.parent, a.name, a.sql, a.schema), None)

(* create_dataset *)

create_dataset_get(p) ==
    /\ At(p, "create_dataset", "list")
    /\ ListStep(p, "dataset")

create_dataset_post(p) ==
    /\ At(p, "create_dataset", "post")
    /\ LET a == pr[p].args
       IN  PostStep(p, "dataset", DatasetPayload(a.parent, a.schema, a.name), None)

(* create_sql_dataset *)

create_sql_dataset_get(p) ==
    /\ At(p, "create_sql_dataset", "list")
    /\ ListStep(p, "dataset")

create_sql_dataset_post(p) ==
    /\ At(p, "create_sql_dataset", "post")
    /\ LET a == pr[p].args
       IN  PostStep(p, "dataset", SqlDatasetPayload(a.parent, a.name, a.sql), None)

(* create_chart *)

\* A create_chart that brings the chart it finds up to date with a PUT.
create_chart_get_updating(p) ==
    /\ At(p, "create_chart", "list")
    /\ \E resp \in GetResponses :
        /\ EnvGet(resp)
        /\ IF resp = "raise"
           THEN /\ pr' = [pr EXCEPT ![p] = Raised([@ EXCEPT !.got = resp])]
                /\ UNCHANGED backend
           ELSE LET rows == ResultOf(resp, backend.chart)
                    i    == ExistingChart(rows, pr[p].args.name)
                    r    == [pr[p] EXCEPT !.got = resp, !.listing = rows]
                IN  /\ pr' = [pr EXCEPT ![p] =
                                IF i # 0 THEN Returned(r, rows[i].id, "exists")
                                         ELSE [r EXCEPT !.upc = "post"]]
                    /\ backend' = IF i # 0
                                  THEN [backend EXCEPT !.chart[i].datasource_type = "updated"]
                                  ELSE backend
        /\ UNCHANGED <<rejects, det, decided, calls, sched>>

create_chart_get(p) ==
    /\ At(p, "create_chart", "list")
    /\ ListStep(p, "chart")

\* The retry of create_virtual_dataset carried over to charts: a rejected
\* creation is sent again.
create_chart_post_again(p) ==
    /\ At(p, "create_chart", "post")
    /\ LET a       == pr[p].args
           payload == ChartPayload(a.name, a.parent)
       IN  \E resp \in PostResponses :
            /\ EnvPost("chart", payload, resp)
            /\ LET r == Sent(pr[p], "chart", payload, resp)
               IN  pr' = [pr EXCEPT ![p] =
                            IF Throws(resp) THEN Raised(r) ELSE
                            IF Accepted(resp.status)
                            THEN Returned(r, ResponseId("chart", resp), "created")
                            ELSE IF Len(r.sent) < 2 THEN r
                                 ELSE Returned(r, None, "failed")]
    /\ UNCHANGED <<det, calls, sched>>

create_chart_post(p) ==
    /\ At(p, "create_chart", "post")
    /\ LET a == pr[p].args
       IN  PostStep(p, "chart", ChartPayload(a.name, a.parent), None)

(* create_dashboard *)

\* A create_dashboard that gives the dashboard it finds the layout of the
\* charts it was called with.
create_dashboard_get_repairing(p) ==
    /\ At(p, "create_dashboard", "list")
    /\ \E resp \in GetResponses :
        /\ EnvGet(resp)
        /\ IF resp = "raise"
           THEN /\ pr' = [pr EXCEPT ![p] = Raised([@ EXCEPT !.got = resp])]
                /\ UNCHANGED backend
           ELSE LET a    == pr[p].args
                    rows == ResultOf(resp, backend.dashboard)
                    i    == ExistingDashboard(rows, a.slug, a.name)
                    r    == [pr[p] EXCEPT !.got = resp, !.listing = rows]
                IN  /\ pr' = [pr EXCEPT ![p] =
                                IF i # 0 THEN Returned(r, rows[i].id, "exists")
                                         ELSE [r EXCEPT !.upc = "post"]]
                    /\ backend' = IF i # 0
                                  THEN [backend EXCEPT !.dashboard[i].position_json =
                                            PositionJson(a.name, a.chart_ids)]
                                  ELSE backend
        /\ UNCHANGED <<rejects, det, decided, calls, sched>>

create_dashboard_get(p) ==
    /\ At(p, "create_dashboard", "list")
    /\ ListStep(p, "dashboard")

\* A create_dashboard that treats a dashboard without charts as a failure
\* and sends nothing for it.
create_dashboard_post_if_charts(p) ==
    /\ At(p, "create_dashboard", "post")
    /\ LET a == pr[p].args
       IN  IF SelectNonNull(a.chart_ids) = <<>>
           THEN /\ pr' = [pr EXCEPT ![p] = Returned(@, None, "failed")]
                /\ UNCHANGED <<backend, faults, rejects, det, decided, calls, sched>>
           ELSE PostStep(p, "dashboard", DashboardPayload(a.name, a.slug, a.chart_ids), None)

create_dashboard_post(p) ==
    /\ At(p, "create_dashboard", "post")
    /\ LET a == pr[p].args
       IN  PostStep(p, "dashboard", DashboardPayload(a.name, a.slug, a.chart_ids), None)

----------------------------------------------------------------------------
(* A process before it has run anything.                                   *)

Fresh(ph, scen) ==
    [ph |-> ph, scen |-> scen, first |-> 1, last |-> 0, s |-> 0, k |-> 0, run |-> 1,
     exit |-> -1, database_id |-> None, dataset_id |-> None, charts |-> <<>>,
     results |-> <<>>, datasets |-> <<>>, summary |-> {},
     log |-> {}, posted |-> {}, before |-> EmptyBackend,
     fn |-> "none", upc |-> "idle", args |-> NoArgs, listing |-> <<>>,
     got |-> "none", ret |-> None, out |-> "none", sent |-> <<>>, tok |-> FALSE]

----------------------------------------------------------------------------
(* The upsert functions one at a time: each is called with arguments from  *)
(* small sets against a backend whose rows of one kind are arbitrary.      *)

SeqsUpTo(S, n) == UNION {[1..m -> S] : m \in 0..n}

\* The rows of a listing, the id of each being its place in the table.
Rows(q) == [i \in 1..Len(q) |-> [id |-> i] @@ q[i]]

HDatabaseRows ==
    {[database_name |-> n, engine |-> "trino"] :
        n \in {"TRINO prod", "Warehouse WMS", "examples", "PostgreSQL"}}

HDatasetRows ==
    {[database |-> 1, table_name |-> n, sql |-> Missing, schema |-> "gold"] :
        n \in {"vw_orders", "VW_Orders", "waves"}}

HChartRows ==
    {[slice_name |-> n, datasource_id |-> 1, datasource_type |-> "table"] :
        n \in {"Orders by Zone", "orders by zone", "Wave Rate"}}

HDashboardRows ==
    {[dashboard_title |-> t[1], slug |-> t[2], published |-> TRUE,
      position_json |-> PositionJson(t[1], <<>>)] :
        t \in {<<"Tote Lookup", "tote-lookup">>, <<"Tote Lookup", "totes">>,
               <<"Totes", "tote-lookup">>, <<"tote lookup", "Tote-Lookup">>,
               <<"Totes", "totes">>}}

HRows(kind) ==
    CASE kind = "database"  -> HDatabaseRows
      [] kind = "dataset"   -> HDatasetRows
      [] kind = "chart"     -> HChartRows
      [] kind = "dashboard" -> HDashboardRows

HBackends ==
    {[EmptyBackend EXCEPT ![kind] = Rows(q)] :
        <<kind, q>> \in UNION {{<<k, q>> : q \in SeqsUpTo(HRows(k), MaxListing)} : k \in Kinds}}

\* The calls made on a backend that was filled for kind.
HCalls(kind) ==
    CASE kind = "database" ->
            {[fn |-> "create_database_connection", args |-> NoArgs]}
      [] kind = "dataset" ->
            {[fn |-> "create_virtual_dataset",
              args |-> [NoArgs EXCEPT !.name = n, !.sql = "SELECT 1",
                                      !.schema = sc, !.parent = 1]] :
                n \in {"vw_orders"}, sc \in {Missing, "", "gold", "silver"}}
            \cup
            {[fn |-> f,
              args |-> [NoArgs EXCEPT !.name = n,
                                      !.sql = IF f = "create_dataset" THEN Missing ELSE "SELECT 1",
                                      !.schema = IF f = "create_dataset" THEN "gold" ELSE Missing,
                                      !.parent = 1]] :
                f \in {"create_dataset", "create_sql_dataset"}, n \in {"vw_orders", "waves"}}
      [] kind = "chart" ->
            {[fn |-> "create_chart", args |-> [NoArgs EXCEPT !.name = n, !.parent = 1]] :
                n \in {"Orders by Zone", "Wave Rate"}}
      [] kind = "dashboard" ->
            {[fn |-> "create_dashboard",
              args |-> [NoArgs EXCEPT !.name = "Tote Lookup", !.slug = sl,
                                      !.chart_ids = c]] :
                c \in {<<>>, <<1, None, 3>>, <<2, 1>>}, sl \in {"tote-lookup", "tote-finder"}}

InitUpsert ==
    /\ backend \in HBackends
    /\ \E kind \in Kinds :
        /\ \A k \in Kinds \ {kind} : backend[k] = <<>>
        /\ pr = [p \in {1} |-> Fresh("harness", kind)]
    /\ faults = MaxFaults
    /\ rejects = MaxRejects
    /\ det = FALSE
    /\ decided = {}
    /\ calls = 0
    /\ sched = NoSched

\* The next call of an upsert function, once the one before has ended.
Call(p) ==
    /\ pr[p].ph = "harness"
    /\ pr[p].upc \in {"idle", "done"}
    /\ calls < MaxCalls
    /\ \E c \in HCalls(pr[p].scen) : pr' = [pr EXCEPT ![p] = Begin(@, c.fn, c.args)]
    /\ calls' = calls + 1
    /\ UNCHANGED <<backend, faults, rejects, det, decided, sched>>

NextUpsert ==
    \/ \E p \in DOMAIN pr : Call(p)
    \/ \E p \in DOMAIN pr : refresh_csrf(p)
    \/ \E p \in DOMAIN pr : create_database_connection_get(p)
    \/ \E p \in DOMAIN pr : create_database_connection_post(p)
    \/ \E p \in DOMAIN pr : create_virtual_dataset_get(p)
    \/ \E p \in DOMAIN pr : create_virtual_dataset_post(p)
    \/ \E p \in DOMAIN pr : create_virtual_dataset_retry(p)
    \/ \E p \in DOMAIN pr : create_dataset_get(p)
    \/ \E p \in DOMAIN pr : create_dataset_post(p)
    \/ \E p \in DOMAIN pr : create_sql_dataset_get(p)
    \/ \E p \in DOMAIN pr : create_sql_dataset_post(p)
    \/ \E p \in DOMAIN pr : create_chart_get(p)
    \/ \E p \in DOMAIN pr : create_chart_post(p)
    \/ \E p \in DOMAIN pr : create_dashboard_get(p)
    \/ \E p \in DOMAIN pr : create_dashboard_post(p)

SpecUpsert == InitUpsert /\ [][NextUpsert]_vars

----------------------------------------------------------------------------
(* SupersetClient.put.  No function of the script calls it, so that no     *)
(* run of main takes this step; it is the client's as a caller of the      *)
(* class may use it: the token is refreshed, then PUT <endpoint> is sent   *)
(* with the JSON data, and the response is returned.                       *)

\* The field of a row of kind that holds its name.
NameField(kind) ==
    CASE kind = "database"  -> "database_name"
      [] kind = "dataset"   -> "table_name"
      [] kind = "chart"     -> "slice_name"
      [] kind = "dashboard" -> "dashboard_title"

\* What the PUT may get: 200 for a row that is there; another status; no
\* answer.
PutResponses == {200, 404, 0}

\* The backend after an accepted PUT of data on row id of kind: the fields
\* of data in place of the row's.
Update(kind, id, data) == [backend EXCEPT ![kind][id] = data @@ @]

\* client.put("/api/v1/<kind>/<id>", {<name field>: name}) is entered.
CallPut(p) ==
    /\ pr[p].ph = "harness"
    /\ pr[p].upc \in {"idle", "done"}
    /\ calls < MaxCalls
    /\ \E id \in 1..(Len(backend[pr[p].scen]) + 1), name \in {"Renamed", "Wave Rate"} :
        pr' = [pr EXCEPT ![p] =
                 [Begin(@, "put", [NoArgs EXCEPT !.name = name, !.parent = id])
                    EXCEPT !.upc = "put"]]
    /\ calls' = calls + 1
    /\ UNCHANGED <<backend, faults, rejects, det, decided, sched>>

\* The second round trip of client.put: the PUT.  put returns the response;
\* session.put raises when there is no answer.
put(p) ==
    /\ At(p, "put", "put")
    /\ \E status \in PutResponses :
        LET r    == [pr[p] EXCEPT !.tok = FALSE]
            kind == r.scen
            id   == r.args.parent
            data == (NameField(kind) :> r.args.name)
        IN  /\ status = 200 => id \in 1..Len(backend[kind])
            /\ status = 0 => faults > 0
            /\ faults' = IF status = 0 THEN faults - 1 ELSE faults
            /\ backend' = IF status = 200 THEN Update(kind, id, data) ELSE backend
            /\ pr' = [pr EXCEPT ![p] =
                        IF status = 0 THEN Raised(r)
                        ELSE Returned(r, status, IF status = 200 THEN "updated" ELSE "failed")]
    /\ UNCHANGED <<rejects, det, decided, calls, sched>>

\* A caller of client.put on a backend that holds rows of one kind.
NextClient ==
    \/ \E p \in DOMAIN pr : CallPut(p)
    \/ \E p \in DOMAIN pr : refresh_csrf(p)
    \/ \E p \in DOMAIN pr : put(p)

SpecClient == InitUpsert /\ [][NextClient]_vars

\* create_dashboard called once, for any title and any list of up to
\* MaxCharts chart ids, each an id or None; an id may occur twice.
LayoutCalls ==
    {[fn |-> "create_dashboard",
      args |-> [NoArgs EXCEPT !.name = t[1], !.slug = t[2], !.chart_ids = c]] :
        t \in {<<"D", "d">>, <<"Tote Lookup", "tote-lookup">>},
        c \in SeqsUpTo({None} \cup 1..MaxCharts, MaxCharts)}

LayoutBackends ==
    { EmptyBackend,
      [EmptyBackend EXCEPT
          !.dashboard = Rows(<<DashboardPayload("Totes", "totes", <<1>>)>>)],
      [EmptyBackend EXCEPT
          !.dashboard = Rows(<<DashboardPayload("Tote Lookup", "totes", <<1>>)>>)] }

InitLayout ==
    /\ backend \in LayoutBackends
    /\ pr = [p \in {1} |-> Fresh("harness", "layout")]
    /\ faults = MaxFaults
    /\ rejects = MaxRejects
    /\ det = FALSE
    /\ decided = {}
    /\ calls = 0
    /\ sched = NoSched

CallLayout(p) ==
    /\ pr[p].ph = "harness" /\ pr[p].scen = "layout"
    /\ pr[p].upc = "idle"
    /\ \E c \in LayoutCalls : pr' = [pr EXCEPT ![p] = Begin(@, c.fn, c.args)]
    /\ UNCHANGED <<backend, faults, rejects, det, decided, calls, sched>>

NextLayout ==
    \/ \E p \in DOMAIN pr : CallLayout(p)
    \/ \E p \in DOMAIN pr : refresh_csrf(p)
    \/ \E p \in DOMAIN pr : create_dashboard_get(p)
    \/ \E p \in DOMAIN pr : create_dashboard_post(p)

SpecLayout == InitLayout /\ [][NextLayout]_vars

----------------------------------------------------------------------------
(* main(): what each setup function upserts, in the order main calls them. *)
(* table: the physical dataset <<schema, table_name>>; view: the virtual   *)
(* dataset <<name, schema>>; dashboard: <<title, slug>>; <<>> when the     *)
(* function has none.                                                      *)

Setups ==
    << [fn |-> "setup_orders_requirements_chart",
        table |-> <<"gold", "orders_by_requirements_daily">>,
        view |-> <<"vw_orders_by_requirements", "gold">>,
        charts |-> <<"Orders by Special Requirements">>,
        dashboard |-> <<>>],
       [fn |-> "setup_order_flow_dashboard",
        table |-> <<"gold", "order_flow_summary">>,
        view |-> <<"vw_order_flow_summary", "gold">>,
        charts |-> <<"Order Flow - Summary", "Order Flow - Stage Durations",
                     "Order Flow - Timeline">>,
        dashboard |-> <<"Order Flow Tracker", "order-flow-tracker">>],
       [fn |-> "setup_tote_lookup_dashboard",
        table |-> <<>>,
        view |-> <<"vw_orders_by_tote", "consolidation_db">>,
        charts |-> <<"Tote Lookup - Orders">>,
        dashboard |-> <<"Tote Lookup", "tote-lookup">>],
       [fn |-> "setup_route_performance_dashboard",
        table |-> <<"gold", "route_performance_by_zone_daily">>,
        view |-> <<"vw_route_performance_by_zone", "routing_db">>,
        charts |-> <<"Route Performance - Routes by Zone",
                     "Route Performance - Avg Distance",
                     "Route Performance - Details">>,
        dashboard |-> <<"Route Performance by Zone", "route-performance">>],
       [fn |-> "setup_route_optimization_dashboard",
        table |-> <<"gold", "route_optimization_candidates">>,
        view |-> <<"vw_route_optimization_candidates", "routing_db">>,
        charts |-> <<"Route Optimization - Score Distribution",
                     "Route Optimization - Routes Needing Attention">>,
        dashboard |-> <<"Route Optimization Analysis", "route-optimization">>],
       [fn |-> "setup_labor_performance_dashboard",
        table |-> <<"gold", "labor_productivity_daily">>,
        view |-> <<>>,
        charts |-> <<"Labor - Total Workers", "Labor - Avg Items/Hour",
                     "Labor - Productivity by Zone", "Labor - Worker Performance">>,
        dashboard |-> <<"Labor Performance", "labor-performance">>],
       [fn |-> "setup_inventory_analytics_dashboard",
        table |-> <<"silver", "inventory_current">>,
        view |-> <<>>,
        charts |-> <<"Inventory - Total SKUs", "Inventory - Total Units",
                     "Inventory - Low Stock Alerts", "Inventory - Reorder Alerts">>,
        dashboard |-> <<"Inventory Analytics", "inventory-analytics">>],
       [fn |-> "setup_wave_performance_dashboard",
        table |-> <<"gold", "wave_performance_daily">>,
        view |-> <<>>,
        charts |-> <<"Wave - Total Waves", "Wave - Completion Rate",
                     "Wave - By Type", "Wave - Performance Details">>,
        dashboard |-> <<"Wave Performance", "wave-performance">>],
       [fn |-> "setup_receiving_dashboard",
        table |-> <<"gold", "receiving_metrics_daily">>,
        view |-> <<>>,
        charts |-> <<"Receiving - Total Receipts", "Receiving - Dock-to-Stock",
                     "Receiving - Units by Dock", "Receiving - Details">>,
        dashboard |-> <<"Receiving Operations", "receiving">>],
       [fn |-> "setup_operations_kpi_dashboard",
        table |-> <<"gold", "operations_summary_daily">>,
        view |-> <<>>,
        charts |-> <<"KPI - Orders Today", "KPI - Fulfillment Rate",
                     "KPI - Items Picked", "KPI - Shipments",
                     "KPI - Active Workers", "KPI - Operations Summary">>,
        dashboard |-> <<"Operations KPI", "operations-kpi">>] >>

Min(a, b) == IF a < b THEN a ELSE b

\* main calls the ten setup functions one after the other, whatever they
\* return; each creates all its charts.
LastSetup == Len(Setups)
ChartsOf(i) == Setups[i].charts

\* The SQL of a virtual dataset: the literal the function passes.
SqlOf(i) == "sql of " \o Setups[i].view[1]

\* What main's summary calls the result of setup function number i.
Label(i) ==
    IF Setups[i].dashboard = <<>>
    THEN [name |-> Setups[i].charts[1], kind |-> "chart"]
    ELSE [name |-> Setups[i].dashboard[1], kind |-> "dashboard"]

\* A summary that ticks every result, whatever its value.
SummaryOfAll(r) ==
    {Label(r.first + j - 1) @@ [mark |-> "ok"] : j \in 1..Len(r.results)}

\* "Resources created:" and one ticked line for each result that is truthy.
Summary(r) ==
    {Label(r.first + j - 1) @@ [mark |-> "ok"] :
        j \in {n \in 1..Len(r.results) : Truthy(r.results[n])}}

\* The setup function returns value to main, which calls the next one; past
\* the last one main prints the summary and ends with status 0.
RECURSIVE EnterSetup(_, _)
EnterSetup(r, i) ==
    IF i > r.last
    THEN [r EXCEPT !.ph = "done", !.exit = 0, !.s = 0, !.k = 0, !.summary = Summary(r)]
    ELSE LET r1 == [r EXCEPT !.s = i, !.k = 0, !.dataset_id = None, !.charts = <<>>]
         IN  IF Setups[i].table # <<>>
             THEN Begin([r1 EXCEPT !.ph = "phys"], "create_dataset",
                        [NoArgs EXCEPT !.parent = r.database_id,
                                       !.schema = Setups[i].table[1],
                                       !.name = Setups[i].table[2]])
             ELSE Begin([r1 EXCEPT !.ph = "virt"], "create_virtual_dataset",
                        [NoArgs EXCEPT !.parent = r.database_id,
                                       !.name = Setups[i].view[1],
                                       !.sql = SqlOf(i),
                                       !.schema = Setups[i].view[2]])

\* results: what the setup functions returned to main; datasets: the
\* dataset_id each of them held when it returned.
LeaveSetup(r, value) ==
    EnterSetup([r EXCEPT !.results = Append(@, value),
                         !.datasets = Append(@, r.dataset_id)], r.s + 1)

\* A slip of the chart calls: the database id where the dataset id belongs.
CallChartOnDatabase(r, k) ==
    Begin([r EXCEPT !.ph = "chart", !.k = k], "create_chart",
          [NoArgs EXCEPT !.name = ChartsOf(r.s)[k], !.parent = r.database_id])

\* create_chart(client, <k-th chart>, ..., dataset_id, ...)
CallChart(r, k) ==
    Begin([r EXCEPT !.ph = "chart", !.k = k], "create_chart",
          [NoArgs EXCEPT !.name = ChartsOf(r.s)[k], !.parent = r.dataset_id])

\* The dataset is there: the charts, one after the other.
WithDataset(r, dataset_id) ==
    CallChart([r EXCEPT !.dataset_id = dataset_id, !.charts = <<>>], 1)

Main(p, ph) == pr[p].ph = ph /\ pr[p].upc \in {"idle", "done"}

\* An exception leaves main before any upsert is called: a traceback and
\* exit status 1.
Crashed(r) == [r EXCEPT !.ph = "crashed", !.exit = 1]

\* SupersetClient(...), _login, first round trip: GET /login/.  Whatever is
\* answered is taken; without an answer the GET raises.
LoginPage(p) ==
    /\ Main(p, "start")
    /\ \E resp \in {"ok", "raise"} :
        /\ resp = "raise" => faults > 0
        /\ faults' = IF resp = "raise" THEN faults - 1 ELSE faults
        /\ pr' = [pr EXCEPT ![p] = IF resp = "raise" THEN Crashed(@)
                                                     ELSE [@ EXCEPT !.ph = "login"]]
    /\ UNCHANGED <<backend, rejects, det, decided, calls, sched>>

\* What the POST of the login may get: 200 with a JSON object (status 200);
\* another status (401); no answer, or 200 with a body that is no JSON object,
\* so that response.json().get("access_token") raises (0).
LoginResponses == {200, 401, 0}

\* _login, second round trip: POST /api/v1/security/login; on any status but
\* 200, sys.exit(1).  Then the call of create_database_connection.
Login(p) ==
    /\ Main(p, "login")
    /\ \E status \in LoginResponses :
        /\ status # 200 => faults > 0
        /\ faults' = IF status = 200 THEN faults ELSE faults - 1
        /\ pr' = [pr EXCEPT ![p] =
                    IF status = 0 THEN Crashed(@) ELSE
                    IF status # 200
                    THEN [@ EXCEPT !.ph = "exit1", !.exit = 1]
                    ELSE Begin([@ EXCEPT !.ph = "db"], "create_database_connection", NoArgs)]
    /\ UNCHANGED <<backend, rejects, det, decided, calls, sched>>

\* main without its test of database_id.
MainDatabaseUngated(p) ==
    /\ Main(p, "db")
    /\ pr' = [pr EXCEPT ![p] = EnterSetup([@ EXCEPT !.database_id = pr[p].ret], pr[p].first)]
    /\ UNCHANGED <<backend, faults, rejects, det, decided, calls, sched>>

\* database_id = create_database_connection(client); without it, sys.exit(1).
MainDatabase(p) ==
    /\ Main(p, "db")
    /\ pr' = [pr EXCEPT ![p] =
                IF ~Truthy(@.ret)
                THEN [@ EXCEPT !.ph = "exit1", !.exit = 1]
                ELSE EnterSetup([@ EXCEPT !.database_id = pr[p].ret], pr[p].first)]
    /\ UNCHANGED <<backend, faults, rejects, det, decided, calls, sched>>

\* A setup function without its "if not dataset_id: return None".
SetupDatasetNoReturn(p) ==
    /\ Main(p, "phys")
    /\ LET r == pr[p]
           i == r.s
       IN  pr' = [pr EXCEPT ![p] =
                    IF ~Truthy(r.ret) /\ Setups[i].view # <<>>
                    THEN Begin([r EXCEPT !.ph = "virt"], "create_virtual_dataset",
                               [NoArgs EXCEPT !.parent = r.database_id,
                                              !.name = Setups[i].view[1],
                                              !.sql = SqlOf(i),
                                              !.schema = Setups[i].view[2]])
                    ELSE WithDataset(r, r.ret)]
    /\ UNCHANGED <<backend, faults, rejects, det, decided, calls, sched>>

\* dataset_id = create_dataset(...): without it the virtual dataset, where the
\* function has one, else the function returns None.
SetupDataset(p) ==
    /\ Main(p, "phys")
    /\ LET r == pr[p]
           i == r.s
       IN  pr' = [pr EXCEPT ![p] =
                    IF Truthy(r.ret) THEN WithDataset(r, r.ret)
                    ELSE IF Setups[i].view # <<>>
                         THEN Begin([r EXCEPT !.ph = "virt"], "create_virtual_dataset",
                                    [NoArgs EXCEPT !.parent = r.database_id,
                                                   !.name = Setups[i].view[1],
                                                   !.sql = SqlOf(i),
                                                   !.schema = Setups[i].view[2]])
                         ELSE LeaveSetup(r, None)]
    /\ UNCHANGED <<backend, faults, rejects, det, decided, calls, sched>>

\* dataset_id = create_virtual_dataset(...): without it the function returns None.
SetupVirtualDataset(p) ==
    /\ Main(p, "virt")
    /\ pr' = [pr EXCEPT ![p] =
                IF Truthy(@.ret) THEN WithDataset(@, @.ret) ELSE LeaveSetup(@, None)]
    /\ UNCHANGED <<backend, faults, rejects, det, decided, calls, sched>>

\* charts.append(create_chart(...)); after the last chart the dashboard, or
\* (setup_orders_requirements_chart) the chart id is what the function returns.
SetupChart(p) ==
    /\ Main(p, "chart")
    /\ LET r  == [pr[p] EXCEPT !.charts = Append(@, pr[p].ret)]
           i  == r.s
       IN  pr' = [pr EXCEPT ![p] =
                    IF r.k < Len(ChartsOf(i)) THEN CallChart(r, r.k + 1)
                    ELSE IF Setups[i].dashboard # <<>>
                         THEN Begin([r EXCEPT !.ph = "dash"], "create_dashboard",
                                    [NoArgs EXCEPT !.name = Setups[i].dashboard[1],
                                                   !.slug = Setups[i].dashboard[2],
                                                   !.chart_ids = r.charts])
                         ELSE LeaveSetup(r, r.ret)]
    /\ UNCHANGED <<backend, faults, rejects, det, decided, calls, sched>>

\* A main that gives up when a dashboard could not be had.
SetupDashboardFatal(p) ==
    /\ Main(p, "dash")
    /\ pr' = [pr EXCEPT ![p] =
                IF Truthy(@.ret) THEN LeaveSetup(@, @.ret)
                ELSE [@ EXCEPT !.ph = "exit1", !.exit = 1]]
    /\ UNCHANGED <<backend, faults, rejects, det, decided, calls, sched>>

\* dashboard_id = create_dashboard(...); return dashboard_id
SetupDashboard(p) ==
    /\ Main(p, "dash")
    /\ pr' = [pr EXCEPT ![p] = LeaveSetup(@, @.ret)]
    /\ UNCHANGED <<backend, faults, rejects, det, decided, calls, sched>>

\* The script is run again, after the run before it has ended.
Rerun(p) ==
    /\ pr[p].ph \in {"done", "exit1", "crashed"}
    /\ pr[p].run < MaxRuns
    /\ pr' = [pr EXCEPT ![p] = [Fresh("start", "main") EXCEPT !.run = pr[p].run + 1,
                                                              !.first = pr[p].first,
                                                              !.last = pr[p].last,
                                                              !.before = backend]]
    /\ UNCHANGED <<backend, faults, rejects, det, decided, calls, sched>>

\* One run of main.
NextRun ==
    \/ \E p \in DOMAIN pr : LoginPage(p)
    \/ \E p \in DOMAIN pr : Login(p)
    \/ \E p \in DOMAIN pr : refresh_csrf(p)
    \/ \E p \in DOMAIN pr : MainDatabase(p)
    \/ \E p \in DOMAIN pr : SetupDataset(p)
    \/ \E p \in DOMAIN pr : SetupVirtualDataset(p)
    \/ \E p \in DOMAIN pr : SetupChart(p)
    \/ \E p \in DOMAIN pr : SetupDashboard(p)
    \/ \E p \in DOMAIN pr : create_database_connection_get(p)
    \/ \E p \in DOMAIN pr : create_database_connection_post(p)
    \/ \E p \in DOMAIN pr : create_virtual_dataset_get(p)
    \/ \E p \in DOMAIN pr : create_virtual_dataset_post(p)
    \/ \E p \in DOMAIN pr : create_virtual_dataset_retry(p)
    \/ \E p \in DOMAIN pr : create_dataset_get(p)
    \/ \E p \in DOMAIN pr : create_dataset_post(p)
    \/ \E p \in DOMAIN pr : create_chart_get(p)
    \/ \E p \in DOMAIN pr : create_chart_post(p)
    \/ \E p \in DOMAIN pr : create_dashboard_get(p)
    \/ \E p \in DOMAIN pr : create_dashboard_post(p)

\* Runs of main one after the other.
NextMain ==
    \/ \E p \in DOMAIN pr : LoginPage(p)
    \/ \E p \in DOMAIN pr : Login(p)
    \/ \E p \in DOMAIN pr : refresh_csrf(p)
    \/ \E p \in DOMAIN pr : MainDatabase(p)
    \/ \E p \in DOMAIN pr : SetupDataset(p)
    \/ \E p \in DOMAIN pr : SetupVirtualDataset(p)
    \/ \E p \in DOMAIN pr : SetupChart(p)
    \/ \E p \in DOMAIN pr : SetupDashboard(p)
    \/ \E p \in DOMAIN pr : Rerun(p)
    \/ \E p \in DOMAIN pr : create_database_connection_get(p)
    \/ \E p \in DOMAIN pr : create_database_connection_post(p)
    \/ \E p \in DOMAIN pr : create_virtual_dataset_get(p)
    \/ \E p \in DOMAIN pr : create_virtual_dataset_post(p)
    \/ \E p \in DOMAIN pr : create_virtual_dataset_retry(p)
    \/ \E p \in DOMAIN pr : create_dataset_get(p)
    \/ \E p \in DOMAIN pr : create_dataset_post(p)
    \/ \E p \in DOMAIN pr : create_chart_get(p)
    \/ \E p \in DOMAIN pr : create_chart_post(p)
    \/ \E p \in DOMAIN pr : create_dashboard_get(p)
    \/ \E p \in DOMAIN pr : create_dashboard_post(p)

\* The backends a first run may meet: nothing there; or a database of another
\* name and resources of names the script uses, left by an earlier setup.
MainBackends ==
    { EmptyBackend,
      [EmptyBackend EXCEPT
          !.database = Rows(<<[database_name |-> "PostgreSQL", engine |-> "postgresql"]>>),
          !.dataset = Rows(<<DatasetPayload(1, "gold", "order_flow_summary")>>),
          !.chart = Rows(<<ChartPayload("Order Flow - Summary", 1)>>),
          !.dashboard = Rows(<<DashboardPayload("Order Flow Tracker", "oft", <<1>>)>>)] }

\* One run of main; the backend may answer MaxFaults requests badly and
\* reject MainRejects creations.
Init ==
    /\ backend \in MainBackends
    /\ pr = [p \in {1} |-> [Fresh("start", "main") EXCEPT !.last = LastSetup,
                                                          !.before = backend]]
    /\ faults = MaxFaults
    /\ rejects = MainRejects
    /\ det = FALSE
    /\ decided = {}
    /\ calls = 0
    /\ sched = NoSched

Spec == Init /\ [][NextRun]_vars

\* Two runs from an empty backend that decides each creation request by the
\* request alone, answers every listing and returns the id of what it creates.
InitIdem ==
    /\ backend = EmptyBackend
    /\ pr = [p \in {1} |-> [Fresh("start", "main") EXCEPT !.last = LastSetup]]
    /\ faults = 0
    /\ rejects = MaxRejects
    /\ det = TRUE
    /\ decided = {}
    /\ calls = 0
    /\ sched = NoSched

SpecIdem == InitIdem /\ [][NextMain]_vars

\* One run of main against an empty backend that answers every listing and
\* every accepted creation well, and rejects up to three creation requests: the
\* one for a physical dataset and both attempts at the virtual one.
InitRejects ==
    /\ backend = EmptyBackend
    /\ pr = [p \in {1} |-> [Fresh("start", "main") EXCEPT !.last = LastSetup,
                                                          !.before = backend]]
    /\ faults = 0
    /\ rejects = MainRejects + 2
    /\ det = FALSE
    /\ decided = {}
    /\ calls = 0
    /\ sched = NoSched

SpecRejects == InitRejects /\ [][NextRun]_vars

\* Runs of main one after the other against a backend that answers every
\* listing and every accepted creation well, and rejects MainRejects
\* creations, each time it is asked anew.
InitRerun ==
    /\ backend \in MainBackends
    /\ pr = [p \in {1} |-> [Fresh("start", "main") EXCEPT !.last = LastSetup,
                                                          !.before = backend]]
    /\ faults = 0
    /\ rejects = MainRejects
    /\ det = FALSE
    /\ decided = {}
    /\ calls = 0
    /\ sched = NoSched

SpecRerun == InitRerun /\ [][NextMain]_vars

----------------------------------------------------------------------------
(* The RED-metrics script: build_panel makes a Grafana panel of a panel    *)
(* template of dashboards.json for one service.                            *)

MaxPieces == 3

SERVICE == "${SERVICE}"

\* A string without its first n characters.
Drop(str, n) == SubSeq(str, n + 1, Len(str))

\* str.replace(old, new) with only the leftmost occurrence replaced.
ReplaceFirst(str, old, new) ==
    LET hits == {i \in 1..(Len(str) - Len(old) + 1) : SubSeq(str, i, i + Len(old) - 1) = old}
        i    == FirstIndex(hits)
    IN  IF i = 0 THEN str
        ELSE SubSeq(str, 1, i - 1) \o new \o Drop(str, i + Len(old) - 1)

\* str.replace(old, new) for a non-empty old: the occurrences of old are
\* found from left to right without overlap, and what is written for one is
\* not looked at again.
RECURSIVE Replace(_, _, _)
Replace(str, old, new) ==
    IF Len(str) < Len(old) THEN str
    ELSE IF SubSeq(str, 1, Len(old)) = old
         THEN new \o Replace(Drop(str, Len(old)), old, new)
         ELSE SubSeq(str, 1, 1) \o Replace(Drop(str, 1), old, new)

\* dict.get(key, default)
Get(dict, key, default) == IF key \in DOMAIN dict THEN dict[key] ELSE default

\* The entries of dict under those of keys it has.
Present(dict, keys) == [k \in (keys \cap DOMAIN dict) |-> dict[k]]

Datasource(prometheus_uid) == [type |-> "prometheus", uid |-> prometheus_uid]

\* Lines 37-60: the panel before its targets.
PanelOf(panel_template, prometheus_uid) ==
    [id |-> panel_template.id, title |-> panel_template.title,
     type |-> panel_template.type, gridPos |-> panel_template.gridPos,
     datasource |-> Datasource(prometheus_uid), targets |-> <<>>]
    @@ Present(panel_template, {"description", "fieldConfig", "options", "transformations"})

\* Lines 64-74: the target of one query.
TargetOf(query, service, prometheus_uid) ==
    [refId |-> query.refId, expr |-> Replace(query.expr, SERVICE, service),
     datasource |-> Datasource(prometheus_uid)]
    @@ Present(query, {"legendFormat", "format", "instant"})

\* build_panel is entered: the panel is made without targets.
build_panel_enter(p) ==
    /\ pr[p].ph = "panel" /\ pr[p].upc = "enter"
    /\ pr' = [pr EXCEPT ![p].panel = PanelOf(pr[p].panel_template, pr[p].prometheus_uid),
                        ![p].upc = "targets"]
    /\ UNCHANGED <<backend, faults, rejects, det, decided, calls, sched>>

\* One turn of the loop over panel_template.get("queries", []).
build_panel_target(p) ==
    /\ pr[p].ph = "panel" /\ pr[p].upc = "targets"
    /\ LET r       == pr[p]
           queries == Get(r.panel_template, "queries", <<>>)
           n       == Len(r.panel.targets) + 1
       IN  /\ n <= Len(queries)
           /\ pr' = [pr EXCEPT ![p].panel.targets =
                        Append(@, TargetOf(queries[n], r.service, r.prometheus_uid))]
    /\ UNCHANGED <<backend, faults, rejects, det, decided, calls, sched>>

\* A loop that is left after its first turn.
build_panel_return_early(p) ==
    /\ pr[p].ph = "panel" /\ pr[p].upc = "targets"
    /\ Len(pr[p].panel.targets) = Min(1, Len(Get(pr[p].panel_template, "queries", <<>>)))
    /\ pr' = [pr EXCEPT ![p].upc = "done", ![p].ret = pr[p].panel]
    /\ UNCHANGED <<backend, faults, rejects, det, decided, calls, sched>>

\* The loop is over: return panel.
build_panel_return(p) ==
    /\ pr[p].ph = "panel" /\ pr[p].upc = "targets"
    /\ Len(pr[p].panel.targets) = Len(Get(pr[p].panel_template, "queries", <<>>))
    /\ pr' = [pr EXCEPT ![p].upc = "done", ![p].ret = pr[p].panel]
    /\ UNCHANGED <<backend, faults, rejects, det, decided, calls, sched>>

(* The panels build_panel is called for.  A query expression is written    *)
(* as a sequence of pieces: the token, text without it, and parts of the   *)
(* token that no neighbour completes.                                      *)

Pieces == {SERVICE, "rate(", "${SERVICE", "SERVICE}", "$", "${service}"}

Services == {"order-service", "", "${SERVICE}", "}", "$"}

RECURSIVE Join(_)
Join(pieces) == IF pieces = <<>> THEN "" ELSE Head(pieces) \o Join(Tail(pieces))

PanelBase ==
    [id |-> 1, title |-> "Request Rate", type |-> "timeseries",
     gridPos |-> [h |-> 8, w |-> 12, x |-> 0, y |-> 0]]

PanelExtras ==
    { <<>>,
      [description |-> "Requests per second"],
      [description |-> "Requests per second", fieldConfig |-> "defaults",
       options |-> "legend", transformations |-> <<>>] }

QueryA(expr) == [refId |-> "A", expr |-> expr]

QueryB ==
    [refId |-> "B", expr |-> "sum(up{job=${SERVICE}}) / count(up{job=${SERVICE}})",
     legendFormat |-> "{{status}}", format |-> "table", instant |-> TRUE]

\* The lists of queries of a template whose first expression is pieces.
QueryLists(pieces) ==
    { <<QueryA(Join(pieces))>>,
      <<QueryA(Join(pieces)) @@ [legendFormat |-> "rps"]>>,
      <<QueryA(Join(pieces)), QueryB>> }

PrometheusUids == {"prometheus", "mimir"}

PanelProc(panel_template, pieces, service, prometheus_uid) ==
    [ph |-> "panel", scen |-> "panel", upc |-> "enter", fn |-> "build_panel",
     panel_template |-> panel_template, pieces |-> pieces, service |-> service,
     prometheus_uid |-> prometheus_uid, panel |-> <<>>, ret |-> <<>>]

InitPanel ==
    /\ backend = EmptyBackend
    /\ \E extras \in PanelExtras, pieces \in SeqsUpTo(Pieces, MaxPieces),
          service \in Services, uid \in PrometheusUids :
        \/ \E queries \in QueryLists(pieces) :
              pr = [p \in {1} |->
                      PanelProc(PanelBase @@ extras @@ [queries |-> queries], pieces, service, uid)]
        \/ /\ pieces = <<>>
           /\ \E t \in {PanelBase @@ extras, PanelBase @@ extras @@ [queries |-> <<>>]} :
                 pr = [p \in {1} |-> PanelProc(t, pieces, service, uid)]
    /\ faults = 0
    /\ rejects = 0
    /\ det = FALSE
    /\ decided = {}
    /\ calls = 0
    /\ sched = NoSched

NextPanel ==
    \/ \E p \in DOMAIN pr : build_panel_enter(p)
    \/ \E p \in DOMAIN pr : build_panel_target(p)
    \/ \E p \in DOMAIN pr : build_panel_return(p)

SpecPanel == InitPanel /\ [][NextPanel]_vars

----------------------------------------------------------------------------
(* The per-service generators: main of red-metrics/create-dashboards.py    *)
(* and of tracing/create-dashboards.py.  Both delete the dashboards of     *)
(* their tag when --clean is given and then POST one dashboard for each    *)
(* service of dashboards.json.  backend.grafana is Grafana's store, a      *)
(* sequence of dashboards [uid, title, tags, dashboard].                   *)

MaxServices == 2

Scripts == {"red-metrics", "tracing"}

\* The tag of a script's dashboards and the ending of their titles.
TagOf(script) == script

SuffixOf(script) == "-" \o script

\* str.endswith(suffix)
EndsWith(str, suffix) ==
    /\ Len(str) >= Len(suffix)
    /\ SubSeq(str, Len(str) - Len(suffix) + 1, Len(str)) = suffix

\* build_panel as a whole: the panel with the targets of all its queries.
BuildPanel(panel_template, service, prometheus_uid) ==
    LET queries == Get(panel_template, "queries", <<>>)
    IN  [PanelOf(panel_template, prometheus_uid) EXCEPT
            !.targets = [n \in 1..Len(queries) |->
                            TargetOf(queries[n], service, prometheus_uid)]]

\* The "annotations" entry that both scripts write.
Annotations ==
    [list |-> << [builtIn |-> 1, datasource |-> [type |-> "grafana", uid |-> "-- Grafana --"],
                  enable |-> TRUE, hide |-> TRUE, name |-> "Annotations & Alerts",
                  type |-> "dashboard"] >>]

\* A search target of the tracing panels 1 to 3.
TraceSearch(service, limit) ==
    [refId |-> "A", queryType |-> "traceqlSearch", limit |-> limit, tableType |-> "traces",
     filters |-> << [id |-> "service-name", tag |-> "service.name", operator |-> "=",
                     value |-> <<service>>, valueType |-> "string", scope |-> "resource"] >>]

\* The five panels that tracing/create-dashboards.py writes for a service.
TracingPanels(service, config) ==
    LET tempo == [type |-> "tempo", uid |-> config.tempo_datasource_uid]
        loki  == [type |-> "loki", uid |-> config.loki_datasource_uid]
    IN  << [id |-> 1, title |-> "Recent Traces", type |-> "table",
            description |-> "Recent traces for " \o service,
            datasource |-> tempo, targets |-> <<TraceSearch(service, 50)>>],
           [id |-> 2, title |-> "Trace Duration Distribution", type |-> "histogram",
            description |-> "Distribution of trace durations",
            datasource |-> tempo, targets |-> <<TraceSearch(service, 100)>>],
           [id |-> 3, title |-> "Traces Over Time", type |-> "timeseries",
            description |-> "Number of traces over time",
            datasource |-> tempo, targets |-> <<TraceSearch(service, 500)>>],
           [id |-> 4, title |-> "Error Traces", type |-> "table",
            description |-> "Traces with errors",
            datasource |-> tempo,
            targets |-> << [refId |-> "A", queryType |-> "traceql", limit |-> 50,
                            tableType |-> "traces",
                            query |-> "{resource.service.name = \"" \o service
                                        \o "\" && status = error}"] >>],
           [id |-> 5, title |-> "Service Logs (with Trace Correlation)", type |-> "logs",
            description |-> "Logs from this service with trace IDs for correlation",
            datasource |-> loki,
            targets |-> << [refId |-> "A",
                            expr |-> "{namespace=\"" \o config.namespace \o "\", pod=~\""
                                        \o service \o ".*\"} | json | trace_id != \"\"",
                            queryType |-> "range"] >>] >>

\* The panels of a service's dashboard.
PanelsOf(script, service, config) ==
    IF script = "red-metrics"
    THEN LET templates == config.dashboard_template.panels
         IN  [n \in 1..Len(templates) |->
                BuildPanel(templates[n], service, config.prometheus_datasource_uid)]
    ELSE TracingPanels(service, config)

\* A payload whose title and tags do not tell the services apart.
create_dashboard_payload_untitled(script, service, config) ==
    LET template == config.dashboard_template
    IN  [dashboard |->
            [title |-> "wms" \o SuffixOf(script),
             tags |-> <<"wms", TagOf(script)>>,
             timezone |-> template.timezone, schemaVersion |-> template.schemaVersion,
             version |-> 0, refresh |-> template.refresh, time |-> template.time,
             panels |-> PanelsOf(script, service, config),
             annotations |-> Annotations],
         overwrite |-> TRUE]

\* create_dashboard_payload(service, config) of the script.
create_dashboard_payload(script, service, config) ==
    LET template == config.dashboard_template
    IN  [dashboard |->
            [title |-> service \o SuffixOf(script),
             tags |-> <<"wms", TagOf(script), service>>,
             timezone |-> template.timezone, schemaVersion |-> template.schemaVersion,
             version |-> 0, refresh |-> template.refresh, time |-> template.time,
             panels |-> PanelsOf(script, service, config),
             annotations |-> Annotations],
         overwrite |-> TRUE]

(* Grafana.  A request is answered with the JSON object of success, with  *)
(* other JSON ("other"), with an HTTP error (grafana_request returns a     *)
(* dict with "error"), not at all ("raise": urlopen raises something that  *)
(* is no HTTPError), or, the request having been served, with a body that  *)
(* is not JSON or is a JSON list ("unreadable": json.loads or the caller's *)
(* result.get raises).  Nothing catches what is raised.                    *)

GrafanaAnswers == {"success", "other", "http_error", "raise", "unreadable"}

\* Grafana has done what the request asks for.
Served(answer) == answer \in {"success", "unreadable"}

\* grafana_request, or the reading of what it returns, raises.
Uncaught(answer) == answer \in {"raise", "unreadable"}

\* What an answer costs the environment's budgets.
GrafanaEnv(answer) ==
    /\ answer \in {"other", "raise", "unreadable"} => faults > 0
    /\ answer = "http_error" => rejects > 0
    /\ faults' = IF answer \in {"other", "raise", "unreadable"} THEN faults - 1 ELSE faults
    /\ rejects' = IF answer = "http_error" THEN rejects - 1 ELSE rejects

\* The places of the store that hold a dashboard of this title.
TitlePlaces(store, title) == {n \in 1..Len(store) : store[n].title = title}

\* POST /api/dashboards/db with overwrite and without uid: the dashboard of
\* the same title is replaced, or a new one is stored.
GrafanaSave(store, dashboard) ==
    LET entry == [uid |-> "uid-" \o dashboard.title, title |-> dashboard.title,
                  tags |-> dashboard.tags, dashboard |-> dashboard]
        at    == TitlePlaces(store, dashboard.title)
    IN  IF at = {} THEN Append(store, entry)
        ELSE [n \in 1..Len(store) |-> IF n \in at THEN [entry EXCEPT !.uid = store[n].uid]
                                                 ELSE store[n]]

\* DELETE /api/dashboards/uid/<uid>
GrafanaDelete(store, uid) == SelectSeq(store, LAMBDA e : e.uid # uid)

\* GET /api/search?tag=<tag>
GrafanaSearch(store, tag) ==
    SelectSeq(store, LAMBDA e : \E n \in 1..Len(e.tags) : e.tags[n] = tag)

\* A request that main has made: existed tells whether Grafana held a
\* dashboard of the payload's title when the request was sent.
Request(method, path, payload, answer, existed) ==
    [method |-> method, path |-> path, payload |-> payload, answer |-> answer,
     existed |-> existed]

GenProc(script, config, clean) ==
    [ph |-> "gen", scen |-> "gen", fn |-> "main", upc |-> "start", script |-> script,
     config |-> config, clean |-> clean, run |-> 1, i |-> 1, found |-> <<>>,
     deleted |-> 0, success |-> 0, failed |-> 0, exit |-> -1, requests |-> <<>>]

\* An uncaught exception ends the run: traceback, exit status 1.
GenCrashed(r, req) ==
    [r EXCEPT !.upc = "crashed", !.exit = 1, !.requests = Append(@, req)]

\* main up to "if args.clean".
gen_start(p) ==
    /\ pr[p].ph = "gen" /\ pr[p].upc = "start"
    /\ pr' = [pr EXCEPT ![p].upc = IF pr[p].clean THEN "search" ELSE "create"]
    /\ UNCHANGED <<backend, faults, rejects, det, decided, calls, sched>>

\* delete_existing_dashboards: the search.  Whatever urlopen or json.loads
\* raises is caught, and nothing is deleted then; an answer that is JSON but
\* no list of objects ("other") makes the loop after the try raise.
delete_existing_dashboards_search(p) ==
    /\ pr[p].ph = "gen" /\ pr[p].upc = "search"
    /\ LET r    == pr[p]
           path == "/api/search?tag=" \o TagOf(r.script)
       IN  \E answer \in GrafanaAnswers :
            /\ GrafanaEnv(answer)
            /\ LET req == Request("GET", path, <<>>, answer, FALSE)
               IN  pr' = [pr EXCEPT ![p] =
                            IF answer = "other" THEN GenCrashed(r, req)
                            ELSE [r EXCEPT !.requests = Append(@, req),
                                           !.found = IF answer = "success"
                                                     THEN GrafanaSearch(backend.grafana, TagOf(r.script))
                                                     ELSE <<>>,
                                           !.upc = IF answer = "success" THEN "delete" ELSE "create"]]
    /\ UNCHANGED <<backend, det, decided, calls, sched>>

\* delete_existing_dashboards: one turn of the loop over the dashboards found.
delete_existing_dashboards_loop(p) ==
    /\ pr[p].ph = "gen" /\ pr[p].upc = "delete"
    /\ pr[p].found # <<>>
    /\ LET r         == pr[p]
           dashboard == Head(r.found)
           rest      == [r EXCEPT !.found = Tail(@)]
           path      == "/api/dashboards/uid/" \o dashboard.uid
       IN  IF EndsWith(dashboard.title, SuffixOf(r.script)) /\ TruthyStr(dashboard.uid)
           THEN \E answer \in GrafanaAnswers :
                  /\ GrafanaEnv(answer)
                  /\ LET req == Request("DELETE", path, <<>>, answer, TRUE)
                     IN  pr' = [pr EXCEPT ![p] =
                                  CASE Uncaught(answer) -> GenCrashed(rest, req)
                                    [] answer = "http_error" ->
                                         [rest EXCEPT !.requests = Append(@, req)]
                                    [] OTHER ->
                                         [rest EXCEPT !.requests = Append(@, req),
                                                      !.deleted = @ + 1]]
                  /\ backend' = IF Served(answer)
                                THEN [backend EXCEPT !.grafana = GrafanaDelete(@, dashboard.uid)]
                                ELSE backend
                  /\ UNCHANGED <<det, decided, calls, sched>>
           ELSE /\ pr' = [pr EXCEPT ![p] = rest]
                /\ UNCHANGED <<backend, faults, rejects, det, decided, calls, sched>>

\* delete_existing_dashboards returns deleted.
delete_existing_dashboards_return(p) ==
    /\ pr[p].ph = "gen" /\ pr[p].upc = "delete"
    /\ pr[p].found = <<>>
    /\ pr' = [pr EXCEPT ![p].upc = "create"]
    /\ UNCHANGED <<backend, faults, rejects, det, decided, calls, sched>>

\* A loop that leaves out the services whose dashboard Grafana holds.
gen_create_unless_stored(p) ==
    /\ pr[p].ph = "gen" /\ pr[p].upc = "create"
    /\ pr[p].i <= Len(pr[p].config.services)
    /\ LET r       == pr[p]
           service == r.config.services[r.i]
           payload == create_dashboard_payload(r.script, service, r.config)
           existed == TitlePlaces(backend.grafana, payload.dashboard.title) # {}
       IN  IF existed
           THEN /\ pr' = [pr EXCEPT ![p].i = @ + 1, ![p].success = @ + 1]
                /\ UNCHANGED <<backend, faults, rejects>>
           ELSE \E answer \in GrafanaAnswers :
                  /\ GrafanaEnv(answer)
                  /\ LET req == Request("POST", "/api/dashboards/db", payload, answer, existed)
                         sent == [r EXCEPT !.requests = Append(@, req), !.i = @ + 1]
                     IN  pr' = [pr EXCEPT ![p] =
                                  CASE Uncaught(answer)  -> GenCrashed(r, req)
                                    [] answer = "success" -> [sent EXCEPT !.success = @ + 1]
                                    [] OTHER              -> [sent EXCEPT !.failed = @ + 1]]
                  /\ backend' = IF Served(answer)
                                THEN [backend EXCEPT !.grafana = GrafanaSave(@, payload.dashboard)]
                                ELSE backend
    /\ UNCHANGED <<det, decided, calls, sched>>

\* One turn of main's loop over config["services"].
gen_create(p) ==
    /\ pr[p].ph = "gen" /\ pr[p].upc = "create"
    /\ pr[p].i <= Len(pr[p].config.services)
    /\ LET r       == pr[p]
           service == r.config.services[r.i]
           payload == create_dashboard_payload(r.script, service, r.config)
           existed == TitlePlaces(backend.grafana, payload.dashboard.title) # {}
       IN  \E answer \in GrafanaAnswers :
            /\ GrafanaEnv(answer)
            /\ LET req == Request("POST", "/api/dashboards/db", payload, answer, existed)
                   sent == [r EXCEPT !.requests = Append(@, req), !.i = @ + 1]
               IN  pr' = [pr EXCEPT ![p] =
                            CASE Uncaught(answer)  -> GenCrashed(r, req)
                              [] answer = "success" -> [sent EXCEPT !.success = @ + 1]
                              [] OTHER              -> [sent EXCEPT !.failed = @ + 1]]
            /\ backend' = IF Served(answer)
                          THEN [backend EXCEPT !.grafana = GrafanaSave(@, payload.dashboard)]
                          ELSE backend
    /\ UNCHANGED <<det, decided, calls, sched>>

\* The loop is over: return 0 if failed == 0 else 1.
gen_return(p) ==
    /\ pr[p].ph = "gen" /\ pr[p].upc = "create"
    /\ pr[p].i > Len(pr[p].config.services)
    /\ pr' = [pr EXCEPT ![p].upc = "done",
                        ![p].exit = IF pr[p].failed = 0 THEN 0 ELSE 1]
    /\ UNCHANGED <<backend, faults, rejects, det, decided, calls, sched>>

\* The script is run again with the same dashboards.json.
GenRerun(p) ==
    /\ pr[p].ph = "gen" /\ pr[p].upc \in {"done", "crashed"}
    /\ pr[p].run < MaxRuns
    /\ \E clean \in BOOLEAN :
        pr' = [pr EXCEPT ![p] = [GenProc(pr[p].script, pr[p].config, clean)
                                    EXCEPT !.run = pr[p].run + 1]]
    /\ UNCHANGED <<backend, faults, rejects, det, decided, calls, sched>>

(* The configurations and stores the generators are run on.                *)

ServiceNames == {"orders", "waves"}

GenTemplate(panels) ==
    [timezone |-> "browser", schemaVersion |-> 38, refresh |-> "30s",
     time |-> [from |-> "now-1h", to |-> "now"], panels |-> panels]

GenPanelLists ==
    { <<>>,
      <<PanelBase @@ [queries |-> <<QueryB>>]>>,
      <<PanelBase @@ [queries |-> <<QueryB>>],
        [PanelBase EXCEPT !.id = 2, !.title = "Latency"] @@ [description |-> "p99"]>> }

GenConfigs ==
    {[services |-> sv, prometheus_datasource_uid |-> "prometheus",
      tempo_datasource_uid |-> "tempo", loki_datasource_uid |-> "loki",
      namespace |-> "wms", dashboard_template |-> GenTemplate(panels)] :
        sv \in SeqsUpTo(ServiceNames, MaxServices), panels \in GenPanelLists}

\* A dashboard stored by an earlier use of Grafana.
Stored(uid, title, tags) ==
    [uid |-> uid, title |-> title, tags |-> tags, dashboard |-> [title |-> title, tags |-> tags]]

GenStores(script) ==
    { <<>>,
      <<Stored("u1", "orders" \o SuffixOf(script), <<"wms", TagOf(script), "orders">>),
        Stored("u2", "Overview", <<"wms", TagOf(script)>>)>>,
      <<Stored("", "waves" \o SuffixOf(script), <<TagOf(script)>>)>> }

InitGen ==
    /\ \E script \in Scripts, config \in GenConfigs, clean \in BOOLEAN :
        /\ script = "tracing" => config.dashboard_template.panels = <<>>
        /\ backend \in {[grafana |-> st] : st \in GenStores(script)}
        /\ pr = [p \in {1} |-> GenProc(script, config, clean)]
    /\ faults = MaxFaults
    /\ rejects = MaxRejects
    /\ det = FALSE
    /\ decided = {}
    /\ calls = 0
    /\ sched = NoSched

NextGen ==
    \/ \E p \in DOMAIN pr : gen_start(p)
    \/ \E p \in DOMAIN pr : delete_existing_dashboards_search(p)
    \/ \E p \in DOMAIN pr : delete_existing_dashboards_loop(p)
    \/ \E p \in DOMAIN pr : delete_existing_dashboards_return(p)
    \/ \E p \in DOMAIN pr : gen_create(p)
    \/ \E p \in DOMAIN pr : gen_return(p)
    \/ \E p \in DOMAIN pr : GenRerun(p)

SpecGen == InitGen /\ [][NextGen]_vars

----------------------------------------------------------------------------
(* The single-dashboard deployments: main of                               *)
(* api-platform/deploy-dashboard.py and events-platform/deploy-dashboard.py *)
(* load one dashboard document, delete the dashboard of its uid when       *)
(* --clean is given, and POST the document.                                *)

DeployScripts == {"api-platform", "events-platform"}

\* The uid that main takes when the document has none.
DefaultUid(script) == script \o "-overview"

\* What load_dashboard and the three prints after it can end with: a
\* document, FileNotFoundError, json.JSONDecodeError (both caught: return 1),
\* or an exception that main does not catch (a file that cannot be read, a
\* document that is no JSON object).
NotFound == [error |-> "FileNotFoundError"]

Invalid == [error |-> "JSONDecodeError"]

Unreadable == [error |-> "uncaught"]

Loaded(file) == "error" \notin DOMAIN file

DeployFiles(script) ==
    { [uid |-> DefaultUid(script), title |-> "Overview", id |-> 7, panels |-> <<1, 2>>],
      [uid |-> "custom", title |-> "Overview", id |-> None, panels |-> <<>>],
      [title |-> "Overview", panels |-> <<1>>],
      NotFound, Invalid, Unreadable }

\* What Grafana may answer to the deployment's POST: {"status": "success",
\* "uid": ...}, a JSON object with a uid but another status, a JSON object
\* with neither, an HTTP error, no answer, or (the document stored) a body
\* that grafana_request or result.get cannot read.
DeployAnswers == {"success", "uid", "other", "http_error", "raise", "unreadable"}

\* POST /api/dashboards/db of a document with overwrite: the dashboard of
\* the same uid is replaced, or a new one is stored.
GrafanaPut(store, dashboard, uid) ==
    LET entry == [uid |-> uid, title |-> dashboard.title, tags |-> <<>>,
                  dashboard |-> dashboard]
        at    == {n \in 1..Len(store) : store[n].uid = uid}
    IN  IF at = {} THEN Append(store, entry)
        ELSE [n \in 1..Len(store) |-> IF n \in at THEN entry ELSE store[n]]

DeployProc(script, file, clean) ==
    [ph |-> "deploy", scen |-> "deploy", fn |-> "main", upc |-> "load", script |-> script,
     file |-> file, clean |-> clean, run |-> 1, dashboard |-> <<>>, deleted |-> FALSE,
     exit |-> -1, requests |-> <<>>]

\* main up to "if args.clean": the document is loaded, or the run ends.
deploy_load(p) ==
    /\ pr[p].ph = "deploy" /\ pr[p].upc = "load"
    /\ LET r == pr[p]
       IN  pr' = [pr EXCEPT ![p] =
                    IF Loaded(r.file)
                    THEN [r EXCEPT !.dashboard = r.file,
                                   !.upc = IF r.clean THEN "clean" ELSE "post"]
                    ELSE [r EXCEPT !.exit = 1,
                                   !.upc = IF r.file = Unreadable THEN "crashed" ELSE "done"]]
    /\ UNCHANGED <<backend, faults, rejects, det, decided, calls, sched>>

\* delete_existing_dashboard for dashboard.get("uid", <default>).
deploy_clean(p) ==
    /\ pr[p].ph = "deploy" /\ pr[p].upc = "clean"
    /\ LET r    == pr[p]
           uid  == Get(r.dashboard, "uid", DefaultUid(r.script))
           path == "/api/dashboards/uid/" \o uid
       IN  \E answer \in GrafanaAnswers :
            /\ GrafanaEnv(answer)
            /\ LET req == Request("DELETE", path, <<>>, answer, TRUE)
               IN  pr' = [pr EXCEPT ![p] =
                            IF Uncaught(answer) THEN GenCrashed(r, req)
                            ELSE [r EXCEPT !.requests = Append(@, req),
                                           !.deleted = (answer # "http_error"),
                                           !.upc = "post"]]
            /\ backend' = IF Served(answer)
                          THEN [backend EXCEPT !.grafana = GrafanaDelete(@, uid)]
                          ELSE backend
    /\ UNCHANGED <<det, decided, calls, sched>>

\* The payload of the deployment: the document with "id" set to None.
DeployPayload(dashboard) ==
    [dashboard |-> [k \in (DOMAIN dashboard \cup {"id"}) |->
                        IF k = "id" THEN None ELSE dashboard[k]],
     overwrite |-> TRUE,
     message |-> "Deployed via deploy-dashboard.py"]

\* The POST and the exit status that its answer gives.
deploy_post(p) ==
    /\ pr[p].ph = "deploy" /\ pr[p].upc = "post"
    /\ LET r       == pr[p]
           payload == DeployPayload(r.dashboard)
           uid     == Get(r.dashboard, "uid", "uid-" \o r.dashboard.title)
           existed == \E n \in 1..Len(backend.grafana) : backend.grafana[n].uid = uid
       IN  \E answer \in DeployAnswers :
            /\ GrafanaEnv(IF answer = "uid" THEN "success" ELSE answer)
            /\ LET req == Request("POST", "/api/dashboards/db", payload, answer, existed)
               IN  pr' = [pr EXCEPT ![p] =
                            IF Uncaught(answer) THEN GenCrashed(r, req)
                            ELSE [r EXCEPT !.requests = Append(@, req), !.upc = "done",
                                           !.exit = IF answer \in {"success", "uid"}
                                                    THEN 0 ELSE 1]]
            /\ backend' = IF answer \in {"success", "uid", "unreadable"}
                          THEN [backend EXCEPT !.grafana = GrafanaPut(@, payload.dashboard, uid)]
                          ELSE backend
    /\ UNCHANGED <<det, decided, calls, sched>>

\* The script is run again on the same document.
DeployRerun(p) ==
    /\ pr[p].ph = "deploy" /\ pr[p].upc \in {"done", "crashed"}
    /\ pr[p].run < MaxRuns
    /\ \E clean \in BOOLEAN :
        pr' = [pr EXCEPT ![p] = [DeployProc(pr[p].script, pr[p].file, clean)
                                    EXCEPT !.run = pr[p].run + 1]]
    /\ UNCHANGED <<backend, faults, rejects, det, decided, calls, sched>>

InitDeploy ==
    /\ \E script \in DeployScripts, clean \in BOOLEAN :
        \E file \in DeployFiles(script) :
            pr = [p \in {1} |-> DeployProc(script, file, clean)]
    /\ backend \in {[grafana |-> st] :
                        st \in {<<>>, <<Stored("custom", "Old overview", <<>>)>>}}
    /\ faults = MaxFaults
    /\ rejects = MaxRejects
    /\ det = FALSE
    /\ decided = {}
    /\ calls = 0
    /\ sched = NoSched

NextDeploy ==
    \/ \E p \in DOMAIN pr : deploy_load(p)
    \/ \E p \in DOMAIN pr : deploy_clean(p)
    \/ \E p \in DOMAIN pr : deploy_post(p)
    \/ \E p \in DOMAIN pr : DeployRerun(p)

SpecDeploy == InitDeploy /\ [][NextDeploy]_vars

----------------------------------------------------------------------------
(* Properties.                                                             *)

Procs == DOMAIN pr

DatasetFns == {"create_virtual_dataset", "create_dataset", "create_sql_dataset"}

KindOf(fn) ==
    CASE fn = "create_database_connection" -> "database"
      [] fn \in DatasetFns                 -> "dataset"
      [] fn = "create_chart"               -> "chart"
      [] fn = "create_dashboard"           -> "dashboard"
      [] OTHER                             -> "none"

\* The row is what the call of r looks for, by the exact comparison of names.
SameName(r, row) ==
    CASE r.fn \in DatasetFns       -> row.table_name = r.args.name
      [] r.fn = "create_chart"     -> row.slice_name = r.args.name
      [] r.fn = "create_dashboard" ->
            row.slug = r.args.slug \/ row.dashboard_title = r.args.name
      [] OTHER                     -> FALSE

\* The rows of the listing of r that have the name asked for.
NamedRows(r) == {i \in 1..Len(r.listing) : SameName(r, r.listing[i])}

\* i is the first of the rows S.
Lowest(S, i) == i \in S /\ \A j \in S : i <= j

\* The creation request was answered with a status other than 200/201.
Rejected(e) == ~e.accepted /\ ~e.raised

\* The call of r has returned with its last creation request rejected.
FinalRejection(r) ==
    r.upc = "done" /\ r.out # "raised" /\ r.sent # <<>> /\ Rejected(r.sent[Len(r.sent)])

\* A run's log says of the row of kind that it exists.
ReportedExists(r, kind, row) ==
    \E l \in r.log :
        /\ l.out = "exists"
        /\ KindOf(l.fn) = kind
        /\ CASE kind = "database"  -> TRUE
             [] kind = "dataset"   -> row.table_name = l.name
             [] kind = "chart"     -> row.slice_name = l.name
             [] kind = "dashboard" -> row.dashboard_title = l.name

\* C1: from an empty backend that decides a creation request by the request
\* alone, a run after the first creates nothing: the backend stays what the
\* run before left, and when the run has ended, every resource there has been
\* found by an existence check and reported as exists.
Idempotence ==
    \A p \in Procs :
        pr[p].run >= 2 =>
            /\ backend = pr[p].before
            /\ \A i \in 1..Len(pr[p].sent) : ~pr[p].sent[i].accepted
            /\ pr[p].ph \in {"done", "exit1"} =>
                 \A kind \in Kinds : \A i \in 1..Len(backend[kind]) :
                    ReportedExists(pr[p], kind, backend[kind][i])

IdempotenceWitness ==
    \E p \in Procs :
        /\ pr[p].run = 2 /\ pr[p].ph = "done"
        /\ Len(backend.chart) >= 2 /\ Len(backend.dashboard) >= 1
        /\ \E d \in decided : d.rejected
        /\ \E l \in pr[p].log : l.out = "exists" /\ l.fn = "create_dashboard"

\* The creation requests of a run for anything but the database connection.
DependentPosts(r) == {q \in r.posted : q.kind # "database"}

\* C2: as long as a run of main holds no database id it has sent no creation
\* request for a dataset, a chart or a dashboard, and once past the database
\* upsert without an id it has ended with exit status 1.
DependencyGating ==
    \A p \in Procs :
        (pr[p].scen = "main" /\ ~Truthy(pr[p].database_id)) =>
            /\ DependentPosts(pr[p]) = {}
            /\ pr[p].ph \notin {"start", "login", "db"} =>
                 (pr[p].ph \in {"exit1", "crashed"} /\ pr[p].exit = 1)

DependencyGatingWitness ==
    \E p \in Procs :
        /\ pr[p].ph = "exit1" /\ pr[p].exit = 1
        /\ pr[p].fn = "create_database_connection"
        /\ FinalRejection(pr[p]) /\ pr[p].ret = None
        /\ DependentPosts(pr[p]) = {}

\* C3: the backend never holds two datasets of one table_name, two charts of
\* one slice_name, or two dashboards of one slug or of one title.
NoDuplicateNames ==
    /\ \A i, j \in 1..Len(backend.dataset) :
          i # j => backend.dataset[i].table_name # backend.dataset[j].table_name
    /\ \A i, j \in 1..Len(backend.chart) :
          i # j => backend.chart[i].slice_name # backend.chart[j].slice_name
    /\ \A i, j \in 1..Len(backend.dashboard) :
          i # j => /\ backend.dashboard[i].slug # backend.dashboard[j].slug
                   /\ backend.dashboard[i].dashboard_title
                        # backend.dashboard[j].dashboard_title

\* C4: once the listing of a dataset, chart or dashboard upsert holds a row of
\* the name asked for, the upsert has returned the id of (the first such) row
\* and has sent no creation request.
ReuseWithoutSending ==
    \A p \in Procs :
        LET r == pr[p]
        IN  (/\ KindOf(r.fn) \in {"dataset", "chart", "dashboard"}
             /\ \E i \in 1..Len(r.listing) : SameName(r, r.listing[i]))
            => /\ r.upc = "done" /\ r.out = "exists"
               /\ r.sent = <<>>
               /\ \E i \in 1..Len(r.listing) :
                    Lowest(NamedRows(r), i) /\ r.ret = r.listing[i].id

ReuseWithoutSendingWitness ==
    \E p \in Procs :
        /\ pr[p].fn = "create_sql_dataset" /\ pr[p].out = "exists"
        /\ pr[p].ret = 2 /\ pr[p].sent = <<>>
        /\ pr[p].listing[2].table_name = pr[p].args.name

\* C5: create_virtual_dataset sends at most two creation requests; after a
\* rejected first one it sends exactly one more, whose schema is the schema
\* supplied, or "gold" when none (None or the empty string) was supplied, and
\* returns the id that request's answer carries when it is accepted, None
\* when it is rejected; after an accepted first one it sends no other.  (A
\* call that client.post or response.json() makes raise returns nothing.)
AlternatePayloadFallback ==
    \A p \in Procs :
        LET r == pr[p]
        IN  r.fn = "create_virtual_dataset" =>
              /\ Len(r.sent) <= 2
              /\ (Len(r.sent) = 2 \/ r.upc = "retry") => Rejected(r.sent[1])
              /\ (r.upc = "done" /\ r.sent # <<>> /\ Rejected(r.sent[1])) =>
                    /\ r.out # "raised" => Len(r.sent) = 2
                    /\ Len(r.sent) = 2 =>
                          /\ r.sent[2].kind = "dataset"
                          /\ r.sent[2].payload.schema =
                                (IF r.args.schema \in {Missing, ""} THEN "gold"
                                                                      ELSE r.args.schema)
                    /\ r.out # "raised" =>
                          r.ret = (IF r.sent[2].accepted THEN r.sent[2].id ELSE None)

AlternatePayloadFallbackWitness ==
    \E p \in Procs :
        /\ pr[p].fn = "create_virtual_dataset" /\ pr[p].upc = "done"
        /\ pr[p].args.schema = Missing
        /\ Len(pr[p].sent) = 2 /\ pr[p].sent[2].accepted
        /\ pr[p].sent[2].payload.schema = "gold"
        /\ pr[p].ret # None

\* C6: one call of create_database_connection, create_dataset,
\* create_sql_dataset, create_chart or create_dashboard sends at most one
\* creation request.
SingleAttempt ==
    \A p \in Procs :
        pr[p].fn \in {"create_database_connection", "create_dataset",
                      "create_sql_dataset", "create_chart", "create_dashboard"}
            => Len(pr[p].sent) <= 1

SingleAttemptWitness ==
    \E p \in Procs :
        /\ pr[p].fn = "create_chart" /\ FinalRejection(pr[p])
        /\ Len(pr[p].sent) = 1 /\ pr[p].ret = None

\* C7, as claimed: whatever the kind, an upsert whose creation request is
\* finally rejected returns None, and the run is not ended by it.
FinalFailureYieldsNull ==
    \A p \in Procs :
        FinalRejection(pr[p]) =>
            pr[p].ret = None /\ pr[p].out = "failed" /\ pr[p].exit # 1

\* C7, amended: a dataset, chart or dashboard upsert whose creation request
\* is finally rejected returns None and the run goes on; the database upsert
\* returns the id of the first database of its listing, None when the listing
\* was empty, and main ends the run with status 1 exactly on None.
FinalFailureResult ==
    \A p \in Procs :
        LET r == pr[p]
        IN  FinalRejection(r) =>
              /\ r.out = "failed" /\ r.ph # "crashed"
              /\ IF r.fn = "create_database_connection"
                 THEN /\ r.ret = (IF r.listing # <<>> THEN r.listing[1].id ELSE None)
                      /\ r.ph \in {"db", "exit1"}
                      /\ r.ph = "exit1" => (r.ret = None /\ r.exit = 1)
                      /\ r.ph = "db" => r.exit = -1
                 ELSE r.ret = None /\ r.ph # "exit1" /\ r.exit # 1

FinalFailureResultWitness ==
    \E p \in Procs :
        /\ pr[p].fn = "create_database_connection" /\ FinalRejection(pr[p])
        /\ pr[p].listing # <<>> /\ pr[p].ret = pr[p].listing[1].id
        /\ pr[p].ret # None

\* C8: when the listing GET of an upsert fails, the upsert sends no creation
\* request and the failure ends the run.
ListingFailureIsFatal ==
    \A p \in Procs :
        pr[p].got \in {"noresult", "raise"} =>
            pr[p].sent = <<>> /\ pr[p].ph = "crashed"

\* The row is the database connection that create_database_connection would
\* create.
SameDatabaseName(row) == row.database_name = DatabasePayload.database_name

\* The row is a database connection that create_database_connection reuses.
TrinoOrWmsName(row) ==
    \/ Contains("trino", Lower(row.database_name))
    \/ Contains("wms", Lower(row.database_name))

\* C9, as claimed: whatever the kind, the row an upsert reuses has exactly
\* the name asked for.
ExactNameMatching ==
    \A p \in Procs :
        LET r == pr[p]
        IN  r.out = "exists" =>
              \E i \in 1..Len(r.listing) :
                  /\ r.ret = r.listing[i].id
                  /\ IF r.fn = "create_database_connection"
                     THEN SameDatabaseName(r.listing[i])
                     ELSE SameName(r, r.listing[i])

\* C9, amended: the row a dataset or chart upsert reuses has exactly the
\* table_name or slice_name asked for, the row a dashboard upsert reuses has
\* exactly the slug or exactly the title asked for, and the row the database
\* upsert reuses is the first whose database_name holds "trino" or "wms" in
\* whatever letter case.
NameMatching ==
    \A p \in Procs :
        LET r == pr[p]
        IN  r.out = "exists" =>
              \E i \in 1..Len(r.listing) :
                  /\ r.ret = r.listing[i].id
                  /\ IF r.fn = "create_database_connection"
                     THEN Lowest({j \in 1..Len(r.listing) : TrinoOrWmsName(r.listing[j])}, i)
                     ELSE SameName(r, r.listing[i])

NameMatchingWitness ==
    \E p \in Procs :
        /\ pr[p].fn = "create_database_connection" /\ pr[p].out = "exists"
        /\ pr[p].ret = 2
        /\ pr[p].listing[1].database_name = "PostgreSQL"
        /\ pr[p].listing[2].database_name = "Warehouse WMS"

\* C10: create_dashboard reuses the first dashboard of the listing whose slug
\* is the slug asked for or whose title is the name asked for, and reuses none
\* when the listing holds no such dashboard.
DashboardFirstMatch ==
    \A p \in Procs :
        LET r == pr[p]
        IN  (r.fn = "create_dashboard" /\ r.upc # "list") =>
              IF \E i \in 1..Len(r.listing) : SameName(r, r.listing[i])
              THEN /\ r.upc = "done" /\ r.out = "exists"
                   /\ \E i \in 1..Len(r.listing) :
                        Lowest(NamedRows(r), i) /\ r.ret = r.listing[i].id
              ELSE r.out # "exists"

DashboardFirstMatchWitness ==
    \E p \in Procs :
        LET r == pr[p]
        IN  /\ r.fn = "create_dashboard" /\ r.out = "exists" /\ r.ret = 1
            /\ Len(r.listing) = 2
            /\ r.listing[1].dashboard_title = r.args.name /\ r.listing[1].slug # r.args.slug
            /\ r.listing[2].slug = r.args.slug /\ r.listing[2].dashboard_title # r.args.name

\* The creation requests a run has sent for the charts and the dashboard of
\* its setup function number i.
PostsOfSetup(r, i) ==
    {q \in r.posted :
        \/ q.kind = "chart"
           /\ \E k \in 1..Len(Setups[i].charts) : q.payload.slice_name = Setups[i].charts[k]
        \/ q.kind = "dashboard" /\ Setups[i].dashboard # <<>>
           /\ q.payload.dashboard_title = Setups[i].dashboard[1]}

\* C11: a setup function that ended without a dataset id has sent no creation
\* request for a chart or a dashboard of its own and has returned None; no
\* setup function is at its charts or its dashboard without a dataset id; and
\* main goes on: every dataset upsert is called with the one database id, and
\* the run ends with status 0 after all its setup functions have returned.
SkipDependents ==
    \A p \in Procs :
        LET r == pr[p]
        IN  r.scen = "main" =>
              /\ \A j \in 1..Len(r.datasets) :
                    ~Truthy(r.datasets[j]) =>
                        /\ PostsOfSetup(r, r.first + j - 1) = {}
                        /\ r.results[j] = None
                        /\ r.ph # "done" => r.s > r.first + j - 1
              /\ r.ph \in {"chart", "dash"} => Truthy(r.dataset_id)
              /\ r.ph \in {"phys", "virt"} =>
                    (Truthy(r.database_id) /\ r.args.parent = r.database_id)
              /\ r.ph = "done" =>
                    (r.exit = 0 /\ Len(r.results) = r.last - r.first + 1)

\* A function with a table and a view is left without a dataset after the
\* creation of the physical dataset and both attempts at the virtual one were
\* rejected; it is skipped, and the one after it gets its dashboard.
SkipDependentsWitness ==
    \E p \in Procs :
        LET r == pr[p]
        IN  /\ r.ph = "done"
            /\ \E j \in 1..(Len(r.datasets) - 1) :
                  LET i == r.first + j - 1
                  IN  /\ Setups[i].table # <<>> /\ Setups[i].view # <<>>
                      /\ ~Truthy(r.datasets[j])
                      /\ Truthy(r.datasets[j + 1]) /\ Truthy(r.results[j + 1])
                      /\ \E l \in r.log : l.fn = "create_dataset" /\ l.out = "failed"
                                          /\ l.name = Setups[i].table[2]
                      /\ \E l \in r.log : l.fn = "create_virtual_dataset" /\ l.out = "failed"
                                          /\ l.name = Setups[i].view[1]

\* The dataset id that setup function number i of a run held when it
\* returned, or holds now.
DatasetIdOf(r, i) ==
    IF i - r.first + 1 \in 1..Len(r.datasets) THEN r.datasets[i - r.first + 1]
    ELSE IF i = r.s THEN r.dataset_id ELSE None

\* The names under which setup function number i looks for its dataset.
DatasetNames(i) ==
    (IF Setups[i].table # <<>> THEN {Setups[i].table[2]} ELSE {})
    \cup (IF Setups[i].view # <<>> THEN {Setups[i].view[1]} ELSE {})

\* C12: every creation request of a run for a dataset was sent after
\* create_database_connection had returned an id, and carries it; every one
\* for a chart was sent after the dataset upsert of the chart's setup function
\* had returned the id of a dataset of that function, and carries it as
\* datasource_id; every one for a dashboard was sent after all create_chart
\* calls of its setup function had returned.
DagOrdering ==
    \A p \in Procs :
        LET r == pr[p]
        IN  r.scen = "main" =>
              \A q \in r.posted :
                /\ q.kind = "dataset" =>
                      /\ \E l \in r.log : l.fn = "create_database_connection"
                      /\ Truthy(r.database_id)
                      /\ q.payload.database = r.database_id
                      /\ \E n \in 1..Len(backend.database) :
                            backend.database[n].id = r.database_id
                /\ q.kind = "chart" =>
                      \E i \in r.first..r.last :
                        /\ \E k \in 1..Len(Setups[i].charts) :
                              Setups[i].charts[k] = q.payload.slice_name
                        /\ Truthy(DatasetIdOf(r, i))
                        /\ q.payload.datasource_id = DatasetIdOf(r, i)
                        /\ \E l \in r.log : l.fn \in DatasetFns /\ l.name \in DatasetNames(i)
                                            /\ l.out \in {"exists", "created"}
                        /\ \E n \in 1..Len(backend.dataset) :
                              /\ backend.dataset[n].id = DatasetIdOf(r, i)
                              /\ backend.dataset[n].table_name \in DatasetNames(i)
                /\ q.kind = "dashboard" =>
                      \E i \in r.first..r.last :
                        /\ Setups[i].dashboard # <<>>
                        /\ Setups[i].dashboard[1] = q.payload.dashboard_title
                        /\ \A k \in 1..Len(ChartsOf(i)) :
                              \E l \in r.log : l.fn = "create_chart" /\ l.name = ChartsOf(i)[k]

DagOrderingWitness ==
    \E p \in Procs :
        LET r == pr[p]
        IN  /\ r.ph = "done"
            /\ \E q \in r.posted : q.kind = "dataset" /\ q.payload.database = r.database_id
            /\ \E q \in r.posted : q.kind = "chart" /\ q.payload.datasource_id = 2
                                   /\ r.database_id = 1
            /\ \E q \in r.posted : q.kind = "dashboard"

\* The layout in a creation request names, in ROW-1 and by its leaf nodes,
\* exactly the charts a and b, in that order.
ShowsTwo(layout, a, b) ==
    /\ layout.children = <<ChartKey(a), ChartKey(b)>>
    /\ DOMAIN layout.nodes = {ChartKey(a), ChartKey(b)}
    /\ layout.nodes[ChartKey(a)].chartId = a
    /\ layout.nodes[ChartKey(b)].chartId = b

\* C13: when of the three create_chart calls of a setup function the second
\* returned None and the others an id, create_dashboard is called with the
\* three results, every creation request it sends names exactly the first and
\* the third chart in that order, it does send one unless the dashboard is
\* listed (or the listing raises), and an accepted request has created the
\* dashboard with that layout and its id is returned.
PartialChartFailure ==
    \A p \in Procs :
        LET r == pr[p]
        IN  (/\ r.scen = "main" /\ r.fn = "create_dashboard"
             /\ Len(r.charts) = 3
             /\ Truthy(r.charts[1]) /\ ~Truthy(r.charts[2]) /\ Truthy(r.charts[3]))
            => /\ r.args.chart_ids = r.charts
               /\ \A n \in 1..Len(r.sent) :
                     ShowsTwo(r.sent[n].payload.position_json, r.charts[1], r.charts[3])
               /\ (r.upc = "done" /\ r.out \notin {"exists", "raised"}) => Len(r.sent) = 1
               /\ (r.upc = "done" /\ r.sent # <<>> /\ r.sent[1].accepted) =>
                     /\ r.ret = r.sent[1].id
                     /\ \E n \in 1..Len(backend.dashboard) :
                           /\ backend.dashboard[n].dashboard_title = r.args.name
                           /\ ShowsTwo(backend.dashboard[n].position_json,
                                       r.charts[1], r.charts[3])

PartialChartFailureWitness ==
    \E p \in Procs :
        LET r == pr[p]
        IN  /\ r.scen = "main" /\ r.fn = "create_dashboard" /\ r.upc = "done"
            /\ Len(r.charts) = 3
            /\ Truthy(r.charts[1]) /\ ~Truthy(r.charts[2]) /\ Truthy(r.charts[3])
            /\ r.out = "created" /\ Truthy(r.ret)
            /\ Len(r.sent[1].payload.position_json.children) = 2

\* What a run has attempted: the datasets, charts and dashboards its upserts
\* were called for, and the dashboards of its setup functions.
Attempted(r) ==
    {l.name : l \in {m \in r.log : m.fn # "create_database_connection"}}
    \cup {Setups[i].dashboard[1] : i \in {n \in r.first..r.last : Setups[n].dashboard # <<>>}}

\* C14, as claimed: the summary of a run that has ended has a line for every
\* resource the run attempted, marked as succeeded or as absent.
SummaryComplete ==
    \A p \in Procs :
        pr[p].ph = "done" =>
            \A n \in Attempted(pr[p]) :
                \E e \in pr[p].summary : e.name = n /\ e.mark \in {"ok", "absent"}

\* C14, amended: the summary of a run that has ended has one line for each
\* setup function that returned an id, naming the function's dashboard (its
\* chart, for the first) that the backend holds under that id, and no line for
\* any other; every line is a tick.  Every creation request of the run has
\* its outcome in the running log.
SummaryListsSuccesses ==
    \A p \in Procs :
        LET r == pr[p]
        IN  r.ph = "done" =>
              /\ Len(r.results) = r.last - r.first + 1
              /\ \A j \in 1..Len(r.results) :
                    LET e == Label(r.first + j - 1)
                    IN  /\ (\E x \in r.summary : x.name = e.name) <=> Truthy(r.results[j])
                        /\ Truthy(r.results[j]) =>
                              \E n \in 1..Len(backend[e.kind]) :
                                  /\ backend[e.kind][n].id = r.results[j]
                                  /\ e.kind = "chart" => backend.chart[n].slice_name = e.name
                                  /\ e.kind = "dashboard" =>
                                        \/ backend.dashboard[n].dashboard_title = e.name
                                        \/ backend.dashboard[n].slug = Setups[r.first + j - 1].dashboard[2]
              /\ \A x \in r.summary :
                    /\ x.mark = "ok"
                    /\ \E j \in 1..Len(r.results) : x.name = Label(r.first + j - 1).name
              /\ \A q \in r.posted :
                    \E l \in r.log : /\ KindOf(l.fn) = q.kind
                                     /\ l.out \in {"created", "failed"}
                                     /\ q.kind = "dataset" => l.name = q.payload.table_name
                                     /\ q.kind = "chart" => l.name = q.payload.slice_name
                                     /\ q.kind = "dashboard" => l.name = q.payload.dashboard_title

\* A run ends with one result ticked and another, whose dashboard or chart
\* failed or was skipped, left out of the summary.
SummaryListsSuccessesWitness ==
    \E p \in Procs :
        LET r == pr[p]
        IN  /\ r.ph = "done"
            /\ \E i, j \in 1..Len(r.results) :
                  /\ Truthy(r.results[i]) /\ ~Truthy(r.results[j])
                  /\ \E x \in r.summary : x.name = Label(r.first + i - 1).name
                  /\ \A x \in r.summary : x.name # Label(r.first + j - 1).name
            /\ \E l \in r.log : l.out = "failed" /\ l.fn = "create_chart"

\* The run has ended, and its login had succeeded.
EndedAfterLogin(r) ==
    r.scen = "main" /\ r.ph \in {"done", "exit1", "crashed"} /\ r.fn # "none"

\* C15, as claimed: a run that has ended after a successful login has a
\* non-zero exit status exactly when it holds no database id.
ExitStatusByDatabaseOnly ==
    \A p \in Procs :
        EndedAfterLogin(pr[p]) => (pr[p].exit # 0 <=> ~Truthy(pr[p].database_id))

\* C15, amended: a run that has ended after a successful login has exit
\* status 0 exactly when it holds a database id and no call of it raised an
\* exception, and status 1 otherwise; results of None among those of its
\* setup functions leave the status at 0.
ExitStatus ==
    \A p \in Procs :
        LET r == pr[p]
        IN  /\ EndedAfterLogin(r) =>
                /\ r.exit \in {0, 1}
                /\ r.exit = 0 <=> (Truthy(r.database_id) /\ r.out # "raised")
                /\ r.exit = 0 => r.ph = "done"
                /\ (r.out # "raised" /\ Truthy(r.database_id)) =>
                      Len(r.results) = r.last - r.first + 1
            /\ (r.scen = "main" /\ r.ph \notin {"done", "exit1", "crashed"}) => r.exit = -1

ExitStatusWitness ==
    \E p \in Procs :
        LET r == pr[p]
        IN  /\ EndedAfterLogin(r) /\ r.exit = 0
            /\ \E j \in 1..Len(r.results) : r.results[j] = None
            /\ \E l \in r.log : l.out = "failed" /\ l.fn = "create_dashboard"

\* The places of a chart-id list that hold an id, and the n-th of them.
IdPlaces(ids) == {i \in 1..Len(ids) : ids[i] # None}

NthIdPlace(ids, n) ==
    CHOOSE i \in IdPlaces(ids) : Cardinality({j \in IdPlaces(ids) : j <= i}) = n

\* The layouts of the creation requests that the current call has sent.
LayoutsSent(r) == {r.sent[n].payload.position_json : n \in 1..Len(r.sent)}

\* C16: the layout create_dashboard sends for a title and a chart-id list has
\* ROOT_ID with children [GRID_ID], GRID_ID with children [ROW-1], the title
\* as header, as children of ROW-1 the keys CHART-<id> of the list's ids that
\* are not None, in the order of the list, and for each of these keys a leaf
\* node of type CHART with parents [ROOT_ID, GRID_ID, ROW-1], that chartId,
\* width 4 and height 50; it has no other leaf node.
LayoutStructure ==
    \A p \in Procs :
        LET r   == pr[p]
            ids == r.args.chart_ids
        IN  r.fn = "create_dashboard" =>
              \A layout \in LayoutsSent(r) :
                /\ layout.header = r.args.name
                /\ layout.root = <<"GRID_ID">>
                /\ layout.grid = <<"ROW-1">>
                /\ Len(layout.children) = Cardinality(IdPlaces(ids))
                /\ \A n \in 1..Len(layout.children) :
                      layout.children[n] = "CHART-" \o ToString(ids[NthIdPlace(ids, n)])
                /\ \A i \in IdPlaces(ids) :
                      LET k == "CHART-" \o ToString(ids[i])
                      IN  /\ k \in DOMAIN layout.nodes
                          /\ layout.nodes[k] =
                                [type |-> "CHART", id |-> k, children |-> <<>>,
                                 parents |-> <<"ROOT_ID", "GRID_ID", "ROW-1">>,
                                 width |-> 4, height |-> 50, chartId |-> ids[i]]
                /\ \A k \in DOMAIN layout.nodes :
                      \E i \in IdPlaces(ids) : k = "CHART-" \o ToString(ids[i])

LayoutStructureWitness ==
    \E p \in Procs :
        LET r == pr[p]
        IN  /\ r.fn = "create_dashboard" /\ r.scen = "layout" /\ r.sent # <<>>
            /\ r.args.name = "D" /\ r.args.chart_ids = <<3, 1, 2>>
            /\ r.sent[1].payload.position_json.children = <<"CHART-3", "CHART-1", "CHART-2">>
            /\ r.sent[1].payload.position_json.nodes["CHART-2"].width = 4

\* C17: in the layout of every dashboard request of a run of main, an entry
\* of the chart-id list that is None gives no leaf node and no child of ROW-1;
\* ROW-1 has one child for each other entry; every leaf's key is
\* CHART-<chartId>, whatever the place of the id in the list; and the layout
\* has as many leaf nodes as the list has entries that are not None.
NullIdsSkipped ==
    \A p \in Procs :
        LET r   == pr[p]
            ids == r.args.chart_ids
        IN  r.fn = "create_dashboard" =>
              \A layout \in LayoutsSent(r) :
                /\ "CHART-" \o ToString(None) \notin DOMAIN layout.nodes
                /\ \A n \in 1..Len(layout.children) :
                      layout.children[n] # "CHART-" \o ToString(None)
                /\ Len(layout.children) = Cardinality(IdPlaces(ids))
                /\ \A k \in DOMAIN layout.nodes :
                      k = "CHART-" \o ToString(layout.nodes[k].chartId)
                /\ \A i \in IdPlaces(ids) :
                      "CHART-" \o ToString(ids[i]) \in DOMAIN layout.nodes
                /\ Cardinality(DOMAIN layout.nodes) = Cardinality(IdPlaces(ids))

\* A setup function of main whose second chart could not be had has sent its
\* dashboard request: two leaves, keyed by the ids of the first and the third
\* chart, the third id not being its place in the list.
NullIdsSkippedWitness ==
    \E p \in Procs :
        LET r   == pr[p]
            ids == r.args.chart_ids
        IN  /\ r.scen = "main" /\ r.fn = "create_dashboard" /\ r.sent # <<>>
            /\ Len(ids) = 3 /\ ids[1] # None /\ ids[2] = None /\ ids[3] # None
            /\ ids[3] # 3
            /\ DOMAIN r.sent[1].payload.position_json.nodes
                  = {ChartKey(ids[1]), ChartKey(ids[3])}
            /\ r.sent[1].payload.position_json.children
                  = <<ChartKey(ids[1]), ChartKey(ids[3])>>

\* C19: a call of create_dashboard whose chart-id list is empty or holds
\* None only, and whose listing showed no dashboard with the slug or the
\* title, has sent exactly one creation request when it returns; the request's
\* ROW-1 has no children and its layout no leaf node; and if the request was
\* accepted with an id, the call returns that id, which is the id of the row
\* the backend now holds for the dashboard.
EmptyDashboardCreated ==
    \A p \in Procs :
        LET r == pr[p]
        IN  ( /\ r.fn = "create_dashboard" /\ r.upc = "done" /\ r.out # "raised"
              /\ IdPlaces(r.args.chart_ids) = {}
              /\ r.got \in {"ok", "noresult"}
              /\ ExistingDashboard(r.listing, r.args.slug, r.args.name) = 0 )
            => /\ Len(r.sent) = 1
               /\ r.sent[1].kind = "dashboard"
               /\ r.sent[1].payload.dashboard_title = r.args.name
               /\ r.sent[1].payload.position_json.children = <<>>
               /\ DOMAIN r.sent[1].payload.position_json.nodes = {}
               /\ (r.sent[1].accepted /\ r.sent[1].id # None) =>
                     /\ r.ret = r.sent[1].id
                     /\ \E n \in 1..Len(backend.dashboard) :
                           /\ backend.dashboard[n].id = r.ret
                           /\ backend.dashboard[n].dashboard_title = r.args.name
                           /\ backend.dashboard[n].position_json.children = <<>>

\* A dashboard whose charts all failed was created on a backend that holds
\* another dashboard, and the call returned its id.
EmptyDashboardCreatedWitness ==
    \E p \in Procs :
        LET r == pr[p]
        IN  /\ r.fn = "create_dashboard" /\ r.upc = "done" /\ r.scen = "layout"
            /\ r.args.chart_ids = <<None, None>>
            /\ r.got = "ok" /\ r.listing # <<>>
            /\ Len(r.sent) = 1 /\ r.sent[1].accepted
            /\ r.ret # None /\ r.ret = r.sent[1].id
            /\ r.sent[1].payload.position_json.children = <<>>

\* The text that a sequence of pieces writes once the service name stands
\* for each piece that is the token.
RECURSIVE Written(_, _)
Written(pieces, service) ==
    IF pieces = <<>> THEN ""
    ELSE (IF Head(pieces) = SERVICE THEN service ELSE Head(pieces))
         \o Written(Tail(pieces), service)

\* C20: the expression of a target that build_panel made is the query's
\* expression with the service name in place of every ${SERVICE} and all
\* other text as it was and where it was; an expression without the token is
\* copied as it is; and a token that the service name itself brings or
\* completes is left in the result.
PlaceholderSubstitution ==
    \A p \in Procs :
        LET r == pr[p]
        IN  (r.ph = "panel" /\ r.upc # "enter" /\ r.panel.targets # <<>>) =>
              LET target == r.panel.targets[1]
                  query  == r.panel_template.queries[1]
              IN  /\ query.expr = Join(r.pieces)
                  /\ target.expr = Written(r.pieces, r.service)
                  /\ (\A n \in 1..Len(r.pieces) : r.pieces[n] # SERVICE)
                        => target.expr = query.expr
                  /\ target.refId = query.refId
                  /\ Len(r.panel.targets) > 1 =>
                        r.panel.targets[2].expr =
                            "sum(up{job=" \o r.service \o "}) / count(up{job="
                                \o r.service \o "})"

\* An expression with the token twice, around a token that is not closed,
\* was written for a service name that closes it.
PlaceholderSubstitutionWitness ==
    \E p \in Procs :
        LET r == pr[p]
        IN  /\ r.ph = "panel" /\ r.upc = "done"
            /\ r.pieces = <<SERVICE, "${SERVICE", SERVICE>>
            /\ r.service = "}"
            /\ r.ret.targets[1].expr = "}${SERVICE}"

\* C21: build_panel returns a panel for every template, also one without a
\* "queries" key or with an empty list, whose panel has no target; the
\* returned panel has one target for each query of the template, in the
\* template's order, with the query's refId and the datasource uid that the
\* caller passed.
ExpansionTotal ==
    \A p \in Procs :
        LET r       == pr[p]
            queries == IF "queries" \in DOMAIN r.panel_template
                       THEN r.panel_template.queries ELSE <<>>
        IN  r.ph = "panel" =>
              /\ r.upc = "done" =>
                    /\ Len(r.ret.targets) = Len(queries)
                    /\ \A n \in 1..Len(queries) :
                          /\ r.ret.targets[n].refId = queries[n].refId
                          /\ r.ret.targets[n].datasource.uid = r.prometheus_uid
                          /\ r.ret.targets[n].datasource.type = "prometheus"
                    /\ r.ret.datasource.uid = r.prometheus_uid
              \* the loop has nothing left to do only when build_panel can return
              /\ (r.upc = "targets" /\ Len(r.panel.targets) >= Len(queries))
                    => ENABLED build_panel_return(p)

\* A template without a "queries" key gave a panel without targets.
ExpansionTotalWitness ==
    \E p \in Procs :
        LET r == pr[p]
        IN  /\ r.ph = "panel" /\ r.upc = "done"
            /\ "queries" \notin DOMAIN r.panel_template
            /\ r.ret.targets = <<>>
            /\ r.prometheus_uid = "mimir"
            /\ "description" \in DOMAIN r.ret

\* The creation requests that the current run of a generator has sent.
Posts(r) == SelectSeq(r.requests, LAMBDA q : q.method = "POST")

GenProcs == {p \in Procs : pr[p].ph = "gen"}

\* C22: the k-th dashboard a generator submits is the dashboard of the k-th
\* service of the configuration: its title is <service>-red-metrics resp.
\* <service>-tracing, its tags are wms, red-metrics resp. tracing, and the
\* service, and it has one panel for each panel template, in their order (for
\* tracing, the five panels the script writes); no service is submitted
\* twice or out of turn, and a run that returns has submitted one dashboard
\* for every service.  Two submissions have the same title exactly when
\* their services have the same name.
OneDashboardPerService ==
    \A p \in GenProcs :
        LET r        == pr[p]
            services == r.config.services
            posts    == Posts(r)
            kind     == IF r.script = "red-metrics" THEN "red-metrics" ELSE "tracing"
        IN  /\ Len(posts) <= Len(services)
            /\ r.upc = "done" => Len(posts) = Len(services)
            /\ \A k \in 1..Len(posts) :
                  LET d == posts[k].payload.dashboard
                  IN  /\ d.title = services[k] \o "-" \o kind
                      /\ d.tags = <<"wms", kind, services[k]>>
                      /\ posts[k].path = "/api/dashboards/db"
                      /\ IF r.script = "red-metrics"
                         THEN /\ Len(d.panels) = Len(r.config.dashboard_template.panels)
                              /\ \A n \in 1..Len(d.panels) :
                                    /\ d.panels[n].id = r.config.dashboard_template.panels[n].id
                                    /\ d.panels[n].title = r.config.dashboard_template.panels[n].title
                         ELSE /\ Len(d.panels) = 5
                              /\ \A n \in 1..5 : d.panels[n].id = n
            /\ \A j, k \in 1..Len(posts) :
                  /\ (services[j] = services[k])
                        <=> (posts[j].payload.dashboard.title = posts[k].payload.dashboard.title)
                  /\ (services[j] = services[k])
                        => (posts[j].payload.dashboard.tags = posts[k].payload.dashboard.tags)

\* A run for the services orders and waves has returned after submitting two
\* dashboards of two panels each with different titles.
OneDashboardPerServiceWitness ==
    \E p \in GenProcs :
        LET r == pr[p]
        IN  /\ r.upc = "done" /\ r.script = "red-metrics"
            /\ r.config.services = <<"orders", "waves">>
            /\ Len(Posts(r)) = 2
            /\ Posts(r)[1].payload.dashboard.title = "orders-red-metrics"
            /\ Posts(r)[2].payload.dashboard.title = "waves-red-metrics"
            /\ Len(Posts(r)[2].payload.dashboard.panels) = 2

\* C23 as stated: no creation request is sent for a dashboard that Grafana
\* already holds.
StoredDashboardSkipped ==
    \A p \in GenProcs :
        \A k \in 1..Len(Posts(pr[p])) : ~Posts(pr[p])[k].existed

\* C23: the generators make no existence check.  A run looks nothing up
\* unless --clean is given, and it submits the dashboard of every service
\* with overwrite = true, also when Grafana holds a dashboard of that title
\* from an earlier run: the turn of a service always sends its POST.
StoredDashboardResubmitted ==
    \A p \in GenProcs :
        LET r     == pr[p]
            posts == Posts(r)
        IN  /\ ~r.clean => Len(posts) = Len(r.requests)
            /\ \A k \in 1..Len(posts) : posts[k].payload.overwrite = TRUE
            /\ r.upc \in {"create", "done"} => Len(posts) = r.i - 1
            /\ r.upc = "done" => r.i = Len(r.config.services) + 1

\* A second run without --clean has submitted, and Grafana accepted, the
\* dashboard that the first run had created.
StoredDashboardResubmittedWitness ==
    \E p \in GenProcs :
        LET r == pr[p]
        IN  /\ r.run = 2 /\ ~r.clean /\ r.upc = "done"
            /\ r.config.services = <<"waves">>
            /\ Len(r.requests) = 1
            /\ r.requests[1].method = "POST"
            /\ r.requests[1].existed
            /\ r.requests[1].answer = "success"
            /\ TitlePlaces(backend.grafana, r.requests[1].payload.dashboard.title) # {}

DeployProcs == {p \in Procs : pr[p].ph = "deploy"}

\* The places of a run's requests that hold a request of this method.
RequestPlaces(r, method) == {n \in 1..Len(r.requests) : r.requests[n].method = method}

\* C24: a run of deploy-dashboard that has ended has sent no request and
\* has exit status 1 if the document could not be loaded; otherwise it has
\* sent exactly one POST to /api/dashboards/db with overwrite true, before it
\* exactly one DELETE by the document's uid if --clean was given and no
\* DELETE if not, whatever the DELETE was answered with.
SingleDeployment ==
    \A p \in DeployProcs :
        LET r       == pr[p]
            posts   == RequestPlaces(r, "POST")
            deletes == RequestPlaces(r, "DELETE")
        IN  r.upc \in {"done", "crashed"} =>
              IF ~Loaded(r.file)
              THEN r.requests = <<>> /\ r.exit = 1
              ELSE /\ Cardinality(posts) = 1
                   /\ \A n \in posts :
                        /\ r.requests[n].path = "/api/dashboards/db"
                        /\ r.requests[n].payload.overwrite = TRUE
                        /\ \A m \in deletes : m < n
                   /\ Cardinality(deletes) = IF r.clean THEN 1 ELSE 0
                   /\ \A m \in deletes :
                        r.requests[m].path = "/api/dashboards/uid/" \o
                            (IF "uid" \in DOMAIN r.file THEN r.file.uid
                             ELSE r.script \o "-overview")

\* What a step leaves of the backend: every row that was there, in its
\* place and with its attributes.
RowsKept ==
    \A kind \in {"database", "dataset", "chart", "dashboard"} :
        /\ Len(backend'[kind]) >= Len(backend[kind])
        /\ \A n \in 1..Len(backend[kind]) : backend'[kind][n] = backend[kind][n]

\* C25: no step of a Superset run changes or removes a row that the backend
\* holds (the script sends only GET and POST); and the id that an upsert
\* returns is the id of a row its listing showed or of the row its POST
\* created.
NoUpdateNoDelete ==
    /\ [][RowsKept]_vars
    /\ [](\A p \in Procs :
            LET r == pr[p]
            IN  (r.ph \notin {"panel", "gen", "deploy"} /\ r.upc = "done" /\ r.ret # None) =>
                  \/ r.out = "exists" /\ \E n \in 1..Len(r.listing) : r.listing[n].id = r.ret
                  \/ r.out = "created" /\ r.sent # <<>> /\ r.sent[Len(r.sent)].id = r.ret
                  \/ r.out = "failed" /\ r.fn = "create_database_connection"
                        /\ r.listing # <<>> /\ r.listing[1].id = r.ret)

\* A run on a backend that held a database, a dataset, a chart and a
\* dashboard has ended: it found some resources and created others, and the
\* four rows are as they were.
NoUpdateNoDeleteWitness ==
    \E p \in Procs :
        LET r == pr[p]
        IN  /\ r.ph = "done"
            /\ \E e \in r.log : e.out = "exists"
            /\ \E e \in r.log : e.out = "created"
            /\ Len(backend.chart) > 1
            /\ backend.database[1] = [id |-> 1, database_name |-> "PostgreSQL", engine |-> "postgresql"]
            /\ backend.chart[1].slice_name = "Order Flow - Summary"
            /\ backend.chart[1].datasource_type = "table"
            /\ backend.dashboard[1].slug = "oft"

\* The upsert that has returned was answered 200/201 without an id.
Malformed(r) ==
    /\ r.ph \in {"harness", "db", "phys", "virt", "chart", "dash"}
    /\ r.upc = "done" /\ r.sent # <<>>
    /\ r.sent[Len(r.sent)].accepted /\ r.sent[Len(r.sent)].id = None
    /\ ~r.sent[Len(r.sent)].raised

\* C26 as stated: an answer without id is handled as a rejection of the same
\* call is: it is reported as a failure, create_virtual_dataset sends its
\* alternate payload after it, and create_database_connection falls back on
\* the first database listed.
MalformedAsRejection ==
    \A p \in Procs :
        LET r == pr[p]
        IN  Malformed(r) =>
              /\ r.out = "failed"
              /\ r.fn = "create_virtual_dataset" => Len(r.sent) = 2
              /\ (r.fn = "create_database_connection" /\ r.listing # <<>>)
                    => r.ret = r.listing[1].id

\* C26: a creation answered 200/201 without an id ends the upsert at once:
\* it returns None (reported as created), nothing is sent after it, not
\* the alternate payload of create_virtual_dataset either, and no listed
\* database is fallen back on.  main then treats the resource as absent: it
\* exits with status 1 without a database, a setup function without its
\* dataset returns None with nothing created for its charts and dashboard
\* (or first tries its virtual dataset), and a chart is recorded as None
\* (for setup_orders_requirements_chart, as the function's result).
MalformedYieldsNull ==
    /\ [](\A p \in Procs :
            LET r == pr[p]
            IN  /\ Malformed(r) => (r.ret = None /\ r.out = "created")
                /\ r.ph \in {"harness", "db", "phys", "virt", "chart", "dash"} =>
                      \A n \in 1..Len(r.sent) :
                          r.sent[n].accepted => n = Len(r.sent))
    /\ [][\A p \in Procs :
            (Malformed(pr[p]) /\ pr[p].ph # "harness" /\ pr'[p] # pr[p]) =>
                /\ pr'[p].posted = pr[p].posted
                /\ CASE pr[p].ph = "db"   -> pr'[p].ph = "exit1" /\ pr'[p].exit = 1
                     [] pr[p].ph = "phys" ->
                            \/ pr'[p].fn = "create_virtual_dataset" /\ pr'[p].ph = "virt"
                            \/ pr'[p].results = Append(pr[p].results, None)
                     [] pr[p].ph = "virt" -> pr'[p].results = Append(pr[p].results, None)
                     [] pr[p].ph = "chart" ->
                            \/ pr'[p].charts = Append(pr[p].charts, None)
                            \/ pr'[p].results = Append(pr[p].results, None)
                     [] OTHER -> pr'[p].results = Append(pr[p].results, None)]_vars

\* create_virtual_dataset was answered 201 without an id on its first
\* attempt and has returned None without a second one.
MalformedYieldsNullWitness ==
    \E p \in Procs :
        LET r == pr[p]
        IN  /\ r.ph = "virt" /\ r.fn = "create_virtual_dataset"
            /\ Malformed(r)
            /\ Len(r.sent) = 1
            /\ r.ret = None

\* C27: a run of a generator that has ended has sent one POST for each
\* service of the configuration, in the order of the list; success and failed
\* add up to the number of services; and the exit status is 0 if failed is 0
\* and 1 otherwise.
TallyAndExit ==
    \A p \in GenProcs :
        LET r        == pr[p]
            services == r.config.services
            posts    == Posts(r)
        IN  r.upc \in {"done", "crashed"} =>
              /\ Len(posts) = Len(services)
              /\ \A k \in 1..Len(posts) :
                    posts[k].payload.dashboard.title = services[k] \o "-" \o r.script
              /\ r.success + r.failed = Len(services)
              /\ r.failed = Cardinality({k \in 1..Len(posts) : posts[k].answer # "success"})
              /\ r.exit = (IF r.failed = 0 THEN 0 ELSE 1)

\* C28: when create_dashboard finds the dashboard it returns the id of the
\* row found and sends nothing, and the row keeps the layout it had, whatever
\* chart ids the call was given; so through a run, a second one too, every
\* dashboard that the backend held when the run began is as it was, also the
\* dashboard of a chart that only the second run could create.
NeverRepaired ==
    \A p \in Procs :
        LET r == pr[p]
        IN  /\ (r.fn = "create_dashboard" /\ r.upc = "done" /\ r.out = "exists") =>
                  /\ r.sent = <<>>
                  /\ \E n \in 1..Len(r.listing) :
                        /\ r.listing[n].id = r.ret
                        /\ r.listing[n].slug = r.args.slug
                              \/ r.listing[n].dashboard_title = r.args.name
                        /\ n <= Len(backend.dashboard)
                        /\ backend.dashboard[n] = r.listing[n]
            /\ r.scen = "main" =>
                  \A n \in 1..Len(r.before.dashboard) :
                      /\ n <= Len(backend.dashboard)
                      /\ backend.dashboard[n] = r.before.dashboard[n]

\* The first run created the Order Flow dashboard without a chart that was
\* rejected; the second run has created that chart and found the dashboard,
\* which still shows fewer charts than the call was given.
NeverRepairedWitness ==
    \E p \in Procs :
        LET r == pr[p]
        IN  /\ r.scen = "main" /\ r.run = 2 /\ r.ph = "done"
            /\ r.fn = "create_dashboard" /\ r.out = "exists"
            /\ IdPlaces(r.args.chart_ids) = 1..Len(r.args.chart_ids)
            /\ \E e \in r.log : e.fn = "create_chart" /\ e.out = "created"
            /\ \E n \in 1..Len(backend.dashboard) :
                  /\ backend.dashboard[n].id = r.ret
                  /\ backend.dashboard[n].dashboard_title = r.args.name
                  /\ Len(backend.dashboard[n].position_json.children) < Len(r.args.chart_ids)
                  /\ \E k \in 1..Len(r.args.chart_ids) :
                        "CHART-" \o ToString(r.args.chart_ids[k])
                            \notin DOMAIN backend.dashboard[n].position_json.nodes

----------------------------------------------------------------------------
(* Two runs of main at once against one backend.  The backend answers      *)
(* every listing and accepts every creation.  One run has the turn; the    *)
(* scheduler may give the turn to the other at any step, and does so at    *)
(* most MaxSwitches times while the run that has it is in its middle.      *)

Ended(p) == pr[p].ph \in {"done", "exit1", "crashed"}

InMiddle(p) == pr[p].ph # "start" /\ ~Ended(p)

Turn(p) == sched.turn = p

InitOverlap ==
    /\ backend = EmptyBackend
    /\ pr = [p \in {1, 2} |-> [Fresh("start", "main") EXCEPT !.last = LastSetup]]
    /\ faults = 0
    /\ rejects = 0
    /\ det = FALSE
    /\ decided = {}
    /\ calls = 0
    /\ sched = [turn |-> 1, preemptions |-> 0]

\* The turn goes to the other run, which has not ended.
Switch ==
    LET p == sched.turn
        q == 3 - p
    IN  /\ ~Ended(q)
        /\ InMiddle(p) => sched.preemptions < MaxSwitches
        /\ sched' = [turn |-> q,
                     preemptions |-> sched.preemptions + (IF InMiddle(p) THEN 1 ELSE 0)]
        /\ UNCHANGED <<backend, pr, faults, rejects, det, decided, calls>>

\* Each of the two is run once.  No creation is rejected, so that no virtual
\* dataset is asked for a second time.
NextOverlap ==
    \/ Switch
    \/ \E p \in DOMAIN pr : Turn(p) /\ LoginPage(p)
    \/ \E p \in DOMAIN pr : Turn(p) /\ Login(p)
    \/ \E p \in DOMAIN pr : Turn(p) /\ refresh_csrf(p)
    \/ \E p \in DOMAIN pr : Turn(p) /\ MainDatabase(p)
    \/ \E p \in DOMAIN pr : Turn(p) /\ SetupDataset(p)
    \/ \E p \in DOMAIN pr : Turn(p) /\ SetupVirtualDataset(p)
    \/ \E p \in DOMAIN pr : Turn(p) /\ SetupChart(p)
    \/ \E p \in DOMAIN pr : Turn(p) /\ SetupDashboard(p)
    \/ \E p \in DOMAIN pr : Turn(p) /\ create_database_connection_get(p)
    \/ \E p \in DOMAIN pr : Turn(p) /\ create_database_connection_post(p)
    \/ \E p \in DOMAIN pr : Turn(p) /\ create_virtual_dataset_get(p)
    \/ \E p \in DOMAIN pr : Turn(p) /\ create_virtual_dataset_post(p)
    \/ \E p \in DOMAIN pr : Turn(p) /\ create_dataset_get(p)
    \/ \E p \in DOMAIN pr : Turn(p) /\ create_dataset_post(p)
    \/ \E p \in DOMAIN pr : Turn(p) /\ create_chart_get(p)
    \/ \E p \in DOMAIN pr : Turn(p) /\ create_chart_post(p)
    \/ \E p \in DOMAIN pr : Turn(p) /\ create_dashboard_get(p)
    \/ \E p \in DOMAIN pr : Turn(p) /\ create_dashboard_post(p)

SpecOverlap == InitOverlap /\ [][NextOverlap]_vars

\* The rows of a kind that share their natural key with an earlier row.
SameKey(kind, a, b) ==
    CASE kind = "dataset" -> a.table_name = b.table_name
      [] kind = "chart" -> a.slice_name = b.slice_name
      [] kind = "dashboard" -> \/ a.slug = b.slug
                               \/ a.dashboard_title = b.dashboard_title
      [] OTHER -> FALSE

\* Every row that repeats the natural key of another was requested by both
\* runs: each listed the kind, found no match and sent the creation request.
BothRunsPosted ==
    \A kind \in {"dataset", "chart", "dashboard"} :
        \A i, j \in 1..Len(backend[kind]) :
            (i # j /\ SameKey(kind, backend[kind][i], backend[kind][j])) =>
                \A p \in {1, 2} :
                    \E q \in pr[p].posted :
                        /\ q.kind = kind
                        /\ SameKey(kind, q.payload, backend[kind][i])

\* C29: check-then-create is not atomic.  Two rows of one natural key arise
\* only from two runs that both listed the kind before either created the
\* name, so that both sent the creation request; and as long as neither run
\* has been made to wait in its middle for the other, that is, the runs have
\* not overlapped, no natural key is held twice.
OverlapOnly ==
    /\ BothRunsPosted
    /\ sched.preemptions = 0 => NoDuplicateNames

\* Both runs have ended, one of them having waited in its middle for the
\* other, and the backend holds two charts of one slice_name, each run having
\* sent the creation request for it.
OverlapOnlyWitness ==
    /\ Ended(1) /\ Ended(2)
    /\ sched.preemptions > 0
    /\ \E i, j \in 1..Len(backend.chart) :
          /\ i # j
          /\ backend.chart[i].slice_name = backend.chart[j].slice_name
          /\ \A p \in {1, 2} :
                \E q \in pr[p].posted :
                    q.kind = "chart" /\ q.payload.slice_name = backend.chart[i].slice_name

\* C30: in create_virtual_dataset the payload sent on retry is the first
\* payload again (same database, table_name, sql and schema) when a non-empty
\* schema was supplied; when none was supplied (None or the empty string) the
\* first payload has no schema and the retry payload is the first payload
\* with schema "gold" added.
RetryPayloadDiffersBySchemaOnly ==
    \A p \in Procs :
        LET r == pr[p]
        IN  (r.fn = "create_virtual_dataset" /\ Len(r.sent) = 2) =>
              /\ r.sent[1].payload.database = r.args.parent
              /\ r.sent[1].payload.table_name = r.args.name
              /\ r.sent[1].payload.sql = r.args.sql
              /\ IF r.args.schema \notin {Missing, ""}
                 THEN /\ r.sent[1].payload.schema = r.args.schema
                      /\ r.sent[2].payload = r.sent[1].payload
                 ELSE /\ r.sent[1].payload.schema = Missing
                      /\ r.sent[2].payload # r.sent[1].payload
                      /\ r.sent[2].payload = [r.sent[1].payload EXCEPT !.schema = "gold"]

\* A call with schema "silver" has ended after its first request was
\* rejected, and its retry repeated the first payload.
RetryPayloadDiffersBySchemaOnlyWitness ==
    \E p \in Procs :
        /\ pr[p].fn = "create_virtual_dataset" /\ pr[p].upc = "done"
        /\ Len(pr[p].sent) = 2
        /\ pr[p].args.schema = "silver"
        /\ pr[p].sent[2].payload = pr[p].sent[1].payload
        /\ pr[p].sent[1].payload.schema = "silver"

====
